---- MODULE Spec2Model ----
(***************************************************************************)
(* Document service of townsag/reed: the repository protocols of           *)
(* document_repository.go over the tables of schema.sql, executed by       *)
(* concurrent request handlers against a PostgreSQL store.                  *)
(*                                                                         *)
(* Spec             statement-level interleaving of the repository's atomic *)
(*                  units (row locks, foreign keys, repeatable-read         *)
(*                  snapshots).                                             *)
(* SpecList         a cursor traversal of ListDocumentsByPrincipal while    *)
(*                  other callers commit mutations.                         *)
(* SpecPermissions  a cursor traversal of ListPermissionsOnDocument while   *)
(*                  other callers commit mutations.                         *)
(* SpecListings     either traversal, for the claims on a single page.      *)
(* SpecRequests     one list request through the gRPC server, with the      *)
(*                  cursor and page size the caller may leave out.          *)
(* SpecScenario     the pagination scenario: a first page, newer documents, *)
(*                  the following pages.                                    *)
(* SpecUsers        the user service: CreateUser, ModifyPassword and        *)
(*                  ValidatePassword over table users.                      *)
(* SpecRepository   Spec, with the repository's UpsertPermissionUser also   *)
(*                  called without the service layer in front of it.        *)
(* SpecErrors       an error from the repository through the service, the   *)
(*                  gRPC server and the gateway to the HTTP status.         *)
(* SpecGateway      the gateway's document and permission handlers on a     *)
(*                  request with a guest or a user token.                   *)
(* SpecCursor       a cursor from the document service to the client as a   *)
(*                  base64 blob, and back.                                  *)
(* SpecStored       deletions and updates of a guest's permission on a      *)
(*                  store that holds two documents and a guest.             *)
(* SpecStoredFair   SpecStored, where a statement that can run does run     *)
(*                  and the store breaks a deadlock.                        *)
(* SpecGrant        Spec, with UpsertPermissionUser also called through     *)
(*                  the gRPC client, which names the calling user.          *)
(* SpecLogin        the gateway's AuthMiddleware and POST /auth/login over  *)
(*                  the user service.                                       *)
(***************************************************************************)
EXTENDS Integers, Sequences, FiniteSets, TLC

\* ------------------------------------------------------------------ bounds
NumProcs == 2
NumUsers == 2
MaxDocs == 2
MaxGuests == 1
MaxBatch == 2
MaxCalls == 3

Procs == 1..NumProcs
UserIds == 1..NumUsers
DocIds == 1..MaxDocs
GuestIds == (NumUsers + 1)..(NumUsers + MaxGuests)

\* ------------------------------------------------------- program vocabulary
Viewer == "viewer"
Editor == "editor"
Owner == "owner"
AllPermissions == {Viewer, Editor, Owner}
User == "user"
Guest == "guest"
Null == "null"
NoId == 0

\* domain errors of the service package, plus success
Ok == "ok"
NotFound == "NotFound"
InvalidInput == "InvalidInput"
RepoImpl == "RepoImpl"

VARIABLES
    documents,     \* committed rows of table documents
    permissions,   \* committed rows of table permissions
    guests,        \* committed rows of table guests
    now,           \* the store's clock, NOW()
    usedIds,       \* ids uuid.New() has handed out
    pc,            \* pc[p]: the statement handler p executes next
    op,            \* op[p]: the call handler p is serving
    wr,            \* wr[p]: uncommitted writes and row locks of p's atomic unit
    dirty,         \* dirty[p]: rows committed by others since p's snapshot
    res,           \* res[p]: what p's last completed call returned
    calls,         \* calls accepted so far
    trav,          \* a client's cursor traversal of a paginated listing
    users          \* committed rows of table users (user service)

vars == <<documents, permissions, guests, now, usedIds, pc, op, wr, dirty, res, calls, trav,
          users>>
tables == <<documents, permissions, guests>>

\* ------------------------------------------------------------------ rows
DocumentRow(id, t) ==
    [id |-> id, name |-> Null, created_at |-> t, last_modified_at |-> t]

PermissionRow(r, rt, d, lvl, by, t) ==
    [recipient_id |-> r, recipient_type |-> rt, document_id |-> d,
     permission_level |-> lvl, created_by |-> by,
     created_at |-> t, last_modified_at |-> t]

GuestRow(g, d, by) ==
    [id |-> g, document_id |-> d, created_by |-> by]

PermKey(row) == <<row.recipient_id, row.document_id>>

NoSnapshot == [on |-> FALSE, docs |-> {}, perms |-> {}, guests |-> {}]
FreshSnapshot == [on |-> TRUE, docs |-> {}, perms |-> {}, guests |-> {}]
NoWrites ==
    [insDocs |-> {}, insPerms |-> {}, insGuests |-> {},
     delDocs |-> {}, delPerms |-> {}, delGuests |-> {}, keyShare |-> {}]
NoOp ==
    [name |-> "none", user |-> NoId, doc |-> NoId, guest |-> NoId,
     level |-> Null, ids |-> <<>>, i |-> 0, start |-> 0, caller |-> NoId]
NoRes == [status |-> "none", id |-> NoId]
NoTraversal ==
    [kind |-> "none", target |-> NoId, filter |-> {}, page_size |-> 0,
     cursor |-> [sort_field |-> "created_at", last_seen_time |-> 0,
                 last_seen_id |-> NoId],
     sent |-> [sort_field |-> "created_at", last_seen_time |-> 0,
               last_seen_id |-> NoId],
     request |-> [nil |-> TRUE],
     pages |-> <<>>, pending |-> {}, status |-> "none", done |-> FALSE,
     quiet |-> TRUE, gained |-> FALSE, marks |-> <<>>, tested |-> {}]

Init ==
    /\ documents = {}
    /\ permissions = {}
    /\ guests = {}
    /\ now = 0
    /\ usedIds = {}
    /\ pc = [p \in Procs |-> "idle"]
    /\ op = [p \in Procs |-> NoOp]
    /\ wr = [p \in Procs |-> NoWrites]
    /\ dirty = [p \in Procs |-> NoSnapshot]
    /\ res = [p \in Procs |-> NoRes]
    /\ calls = 0
    /\ trav = NoTraversal
    /\ users = {}

\* ------------------------------------------------------------ the store
\* What a statement of p's atomic unit works on: the latest committed rows,
\* without the rows p deleted, with the rows p inserted.
CurDocs(p) == {d \in documents : d.id \notin wr[p].delDocs} \cup wr[p].insDocs
CurPerms(p) ==
    {r \in permissions : PermKey(r) \notin wr[p].delPerms} \cup wr[p].insPerms
CurGuests(p) == {g \in guests : g.id \notin wr[p].delGuests} \cup wr[p].insGuests

DocIdsOf(rows) == {d.id : d \in rows}
Without(rows, ds) == {r \in rows : r.document_id \notin ds}
PermsOn(rows, d) == {r \in rows : r.document_id = d}
GuestsOn(rows, d) == {g \in rows : g.document_id = d}

\* Row locks held by the other open atomic units.
PermLockedByOther(p, k) ==
    \E q \in Procs \ {p} :
        k \in wr[q].delPerms \/ k \in {PermKey(r) : r \in wr[q].insPerms}
GuestLockedByOther(p, g) == \E q \in Procs \ {p} : g \in wr[q].delGuests
DocLockedByOther(p, d) == \E q \in Procs \ {p} : d \in wr[q].delDocs
DocKeySharedByOther(p, d) == \E q \in Procs \ {p} : d \in wr[q].keyShare

\* The rows a write set changes (for the snapshots of the other units).
ChangedDocs(w) == w.delDocs \cup DocIdsOf(w.insDocs)
ChangedPerms(w) == w.delPerms \cup {PermKey(r) : r \in w.insPerms}
ChangedGuests(w) == w.delGuests \cup {g.id : g \in w.insGuests}

\* COMMIT of p with write set w: all of w becomes visible in one step.
Publish(p, w) ==
    /\ documents' = {d \in documents : d.id \notin w.delDocs} \cup w.insDocs
    /\ permissions' =
           {r \in permissions : PermKey(r) \notin w.delPerms} \cup w.insPerms
    /\ guests' = {g \in guests : g.id \notin w.delGuests} \cup w.insGuests
    /\ wr' = [wr EXCEPT ![p] = NoWrites]
    /\ dirty' = [q \in Procs |->
                    IF q = p \/ ~dirty[q].on THEN NoSnapshot
                    ELSE [on |-> TRUE,
                          docs |-> dirty[q].docs \cup ChangedDocs(w),
                          perms |-> dirty[q].perms \cup ChangedPerms(w),
                          guests |-> dirty[q].guests \cup ChangedGuests(w)]]

\* A statement run through txQueries: its writes stay private to the unit
\* until tx.Commit.
StageAutocommit(p, w) ==
    Publish(p, w)

Stage(p, w) ==
    /\ wr' = [wr EXCEPT ![p] = w]
    /\ UNCHANGED <<documents, permissions, guests, dirty>>

\* defer tx.Rollback(ctx): the unit's writes and locks are dropped.
Rollback(p) ==
    /\ wr' = [wr EXCEPT ![p] = NoWrites]
    /\ dirty' = [dirty EXCEPT ![p] = NoSnapshot]
    /\ UNCHANGED <<documents, permissions, guests>>

\* the call returns to the server layer; op[p] still names the call
Return(p, status, id) ==
    /\ pc' = [pc EXCEPT ![p] = "returned"]
    /\ res' = [res EXCEPT ![p] = [status |-> status, id |-> id]]
    /\ UNCHANGED op

\* a call the service layer or an argument check turns down at once
Reject(p, call, status) ==
    /\ pc' = [pc EXCEPT ![p] = "returned"]
    /\ res' = [res EXCEPT ![p] = [status |-> status, id |-> NoId]]
    /\ op' = [op EXCEPT ![p] = call]

\* the response is written and the handler is free again
Respond(p) ==
    /\ pc[p] = "returned"
    /\ pc' = [pc EXCEPT ![p] = "idle"]
    /\ op' = [op EXCEPT ![p] = NoOp]
    /\ res' = [res EXCEPT ![p] = NoRes]
    /\ UNCHANGED <<documents, permissions, guests, now, users, trav, usedIds, wr, dirty, calls>>

\* a handler takes up a new request
Accept(p) ==
    /\ pc[p] = "idle"
    /\ calls < MaxCalls
    /\ calls' = calls + 1

Goto(p, label) ==
    /\ pc' = [pc EXCEPT ![p] = label]
    /\ UNCHANGED res

\* A failing call that returns without the deferred rollback: its write set,
\* and with it its row locks, stays.
FailWithoutRollback(p) ==
    /\ pc[p] \notin {"idle", "returned"}
    /\ Return(p, RepoImpl, NoId)
    /\ UNCHANGED <<documents, permissions, guests, wr, dirty>>
    /\ UNCHANGED <<now, users, trav, usedIds, calls>>

\* A statement or the commit of an open call fails (cancelled context,
\* driver error, deadlock victim): the deferred rollback runs and the call
\* returns RepoImpl.
Fail(p) ==
    /\ pc[p] \notin {"idle", "returned"}
    /\ Rollback(p)
    /\ Return(p, RepoImpl, NoId)
    /\ UNCHANGED <<now, users, trav, usedIds, calls>>

\* The check of REFERENCES documents(id) for a row p inserts: the parent must
\* be there, and a repeatable-read unit cannot lock a parent row that was
\* deleted after its snapshot.
ParentMissingNever(p, d) == FALSE

ParentMissing(p, d) ==
    d \notin DocIdsOf(CurDocs(p)) \/ (dirty[p].on /\ d \in dirty[p].docs)

\* ------------------------------------------------- UpsertPermissionUser SQL
\* INSERT INTO permissions (...) VALUES ($1,'user',$2,$3,$4)
\* ON CONFLICT (recipient_id, document_id)
\* DO UPDATE SET last_modified_at = NOW(), permission_level = $3
UpsertBlocked(p, u, d) ==
    PermLockedByOther(p, <<u, d>>) \/ DocLockedByOther(p, d)

\* a plain INSERT, without ON CONFLICT (recipient_id, document_id) DO UPDATE
UpsertSQLInsertOnly(p, u, d, lvl, by) ==
    IF ParentMissing(p, d)
    THEN [ok |-> FALSE, wr |-> wr[p]]
    ELSE [ok |-> TRUE,
          wr |-> [wr[p] EXCEPT
              !.insPerms = @ \cup {PermissionRow(u, User, d, lvl, by, op[p].start)},
              !.keyShare = @ \cup ({d} \cap DocIdsOf(documents))]]

UpsertSQL(p, u, d, lvl, by) ==
    LET k == <<u, d>>
        cur == {r \in CurPerms(p) : PermKey(r) = k}
        old == CHOOSE r \in cur : TRUE
        w == wr[p]
    IN  IF cur # {}
        THEN IF dirty[p].on /\ k \in dirty[p].perms
             THEN [ok |-> FALSE, wr |-> w]
             ELSE [ok |-> TRUE,
                   wr |-> [w EXCEPT
                       !.delPerms = @ \cup {PermKey(r) : r \in cur \cap permissions},
                       !.insPerms = (@ \ cur) \cup
                           {[old EXCEPT !.permission_level = lvl,
                                        !.last_modified_at = op[p].start]}]]
        ELSE IF ParentMissing(p, d)
             THEN [ok |-> FALSE, wr |-> w]
             ELSE [ok |-> TRUE,
                   wr |-> [w EXCEPT
                       !.insPerms = @ \cup {PermissionRow(u, User, d, lvl, by, op[p].start)},
                       !.keyShare = @ \cup ({d} \cap DocIdsOf(documents))]]

\* ------------------------------------------------------------ CreateDocument
StartCreateDocument(p, u) ==
    /\ Accept(p)
    /\ DocIds \ usedIds # {}
    /\ op' = [op EXCEPT ![p] = [NoOp EXCEPT !.name = "CreateDocument",
                                            !.user = u, !.start = now]]
    /\ Goto(p, "cd_insert")
    /\ UNCHANGED <<documents, permissions, guests, now, users, trav, usedIds, wr, dirty>>

CdInsertDocumentOnPool(p) ==
    /\ pc[p] = "cd_insert"
    /\ \E id \in DocIds \ usedIds :
        /\ usedIds' = usedIds \cup {id}
        /\ op' = [op EXCEPT ![p].doc = id]
        /\ Publish(p, [wr[p] EXCEPT !.insDocs = @ \cup {DocumentRow(id, op[p].start)}])
    /\ Goto(p, "cd_upsert")
    /\ UNCHANGED <<now, users, trav, calls>>

CdInsertDocument(p) ==
    /\ pc[p] = "cd_insert"
    /\ \E id \in DocIds \ usedIds :
        /\ usedIds' = usedIds \cup {id}
        /\ op' = [op EXCEPT ![p].doc = id]
        /\ Stage(p, [wr[p] EXCEPT !.insDocs = @ \cup {DocumentRow(id, op[p].start)}])
    /\ Goto(p, "cd_upsert")
    /\ UNCHANGED <<now, users, trav, calls>>

CdUpsertPermission(p) ==
    /\ pc[p] = "cd_upsert"
    /\ ~UpsertBlocked(p, op[p].user, op[p].doc)
    /\ LET r == UpsertSQL(p, op[p].user, op[p].doc, Owner, op[p].user)
       IN  IF r.ok
           THEN /\ Stage(p, r.wr)
                /\ Goto(p, "cd_commit")
                /\ UNCHANGED op
           ELSE /\ Rollback(p)
                /\ Return(p, RepoImpl, NoId)
    /\ UNCHANGED <<now, users, trav, usedIds, calls>>

CdCommitForgotten(p) ==
    /\ pc[p] = "cd_commit"
    /\ Rollback(p)
    /\ Return(p, Ok, op[p].doc)
    /\ UNCHANGED <<now, users, trav, usedIds, calls>>

CdCommit(p) ==
    /\ pc[p] = "cd_commit"
    /\ Publish(p, wr[p])
    /\ Return(p, Ok, op[p].doc)
    /\ UNCHANGED <<now, users, trav, usedIds, calls>>

\* ------------------------------------------------------ deleteDocumentHelper
CurrentDoc(p) == op[p].ids[op[p].i]

\* DELETE FROM permissions WHERE document_id = $1
HelperDeletePermissions(p) ==
    /\ pc[p] = "del_perms"
    /\ LET d == CurrentDoc(p)
           mine == PermsOn(CurPerms(p), d)
       IN  /\ \A r \in mine : ~PermLockedByOther(p, PermKey(r))
           /\ Stage(p, [wr[p] EXCEPT
                  !.delPerms = @ \cup {PermKey(r) : r \in mine \cap permissions},
                  !.insPerms = @ \ mine])
    /\ Goto(p, "del_guests")
    /\ UNCHANGED <<now, users, trav, usedIds, op, calls>>

\* DELETE FROM guests WHERE document_id = $1
HelperDeleteGuests(p) ==
    /\ pc[p] = "del_guests"
    /\ LET d == CurrentDoc(p)
           mine == GuestsOn(CurGuests(p), d)
       IN  /\ \A g \in mine : ~GuestLockedByOther(p, g.id)
           /\ Stage(p, [wr[p] EXCEPT
                  !.delGuests = @ \cup {g.id : g \in mine \cap guests},
                  !.insGuests = @ \ mine])
    /\ Goto(p, "del_doc")
    /\ UNCHANGED <<now, users, trav, usedIds, op, calls>>

\* DELETE FROM documents WHERE id = $1, with the checks of the two
\* REFERENCES documents(id) constraints; count < 1 is NotFound.
ReferencedRowsUnchecked(p, d) == {}

ReferencedRows(p, d) ==
    PermsOn(CurPerms(p), d) \cup GuestsOn(CurGuests(p), d)

HelperDeleteDocumentSkipMissing(p) ==
    /\ pc[p] = "del_doc"
    /\ LET d == CurrentDoc(p)
       IN  /\ ~DocLockedByOther(p, d)
           /\ ~DocKeySharedByOther(p, d)
           /\ IF d \in DocIdsOf(CurDocs(p)) /\ ReferencedRows(p, d) # {}
              THEN /\ Rollback(p)
                   /\ Return(p, RepoImpl, NoId)
              ELSE /\ Stage(p, [wr[p] EXCEPT
                          !.delDocs = @ \cup ({d} \cap DocIdsOf(documents)),
                          !.insDocs = {x \in @ : x.id # d}])
                   /\ IF op[p].i < Len(op[p].ids)
                      THEN /\ op' = [op EXCEPT ![p].i = @ + 1]
                           /\ Goto(p, "del_perms")
                      ELSE /\ Goto(p, "del_commit")
                           /\ UNCHANGED op
    /\ UNCHANGED <<now, users, trav, usedIds, calls>>

HelperDeleteDocument(p) ==
    /\ pc[p] = "del_doc"
    /\ LET d == CurrentDoc(p)
       IN  /\ ~DocLockedByOther(p, d)
           /\ ~DocKeySharedByOther(p, d)
           /\ IF d \notin DocIdsOf(CurDocs(p))
              THEN /\ Rollback(p)
                   /\ Return(p, NotFound, NoId)
              ELSE IF ReferencedRows(p, d) # {}
              THEN /\ Rollback(p)
                   /\ Return(p, RepoImpl, NoId)
              ELSE /\ Stage(p, [wr[p] EXCEPT
                          !.delDocs = @ \cup ({d} \cap DocIdsOf(documents)),
                          !.insDocs = {x \in @ : x.id # d}])
                   /\ IF op[p].i < Len(op[p].ids)
                      THEN /\ op' = [op EXCEPT ![p].i = @ + 1]
                           /\ Goto(p, "del_perms")
                      ELSE /\ Goto(p, "del_commit")
                           /\ UNCHANGED op
    /\ UNCHANGED <<now, users, trav, usedIds, calls>>

\* tx.Commit of DeleteDocument and of DeleteDocuments
DeleteCommit(p) ==
    /\ pc[p] = "del_commit"
    /\ Publish(p, wr[p])
    /\ Return(p, Ok, op[p].doc)
    /\ UNCHANGED <<now, users, trav, usedIds, calls>>

StartDeleteDocument(p, d) ==
    /\ Accept(p)
    /\ op' = [op EXCEPT ![p] = [NoOp EXCEPT !.name = "DeleteDocument", !.doc = d,
                                            !.ids = <<d>>, !.i = 1, !.start = now]]
    /\ Goto(p, "del_perms")
    /\ UNCHANGED <<documents, permissions, guests, now, users, trav, usedIds, wr, dirty>>

\* DeleteDocuments: an empty list is InvalidInput before any transaction.
BatchLists == UNION {[1..n -> DocIds] : n \in 0..MaxBatch}

StartDeleteDocuments(p, ids) ==
    /\ Accept(p)
    /\ LET call == [NoOp EXCEPT !.name = "DeleteDocuments", !.ids = ids,
                                !.i = 1, !.start = now]
       IN  IF Len(ids) < 1
           THEN Reject(p, call, InvalidInput)
           ELSE /\ op' = [op EXCEPT ![p] = call]
                /\ Goto(p, "del_perms")
    /\ UNCHANGED <<documents, permissions, guests, now, users, trav, usedIds, wr, dirty>>

\* the service layer passes every level on to the repository
StartUpsertPermissionUserAnyLevel(p, u, d, lvl) ==
    /\ Accept(p)
    /\ op' = [op EXCEPT ![p] = [NoOp EXCEPT !.name = "UpsertPermissionUser", !.user = u,
                                            !.doc = d, !.level = lvl, !.start = now]]
    /\ Goto(p, "up_get")
    /\ UNCHANGED <<documents, permissions, guests, now, users, trav, usedIds, wr, dirty>>

\* ------------------------------------------------------ UpsertPermissionUser
\* service layer: owner is InvalidInput; repository: BeginTx(RepeatableRead)
StartUpsertPermissionUser(p, u, d, lvl) ==
    /\ Accept(p)
    /\ LET call == [NoOp EXCEPT !.name = "UpsertPermissionUser", !.user = u,
                                !.doc = d, !.level = lvl, !.start = now]
       IN  IF lvl = Owner
           THEN Reject(p, call, InvalidInput)
           ELSE /\ op' = [op EXCEPT ![p] = call]
                /\ Goto(p, "up_get")
    /\ UNCHANGED <<documents, permissions, guests, now, users, trav, usedIds, wr, dirty>>

\* txQueries.GetDocument: the first statement fixes the unit's snapshot.
GetDocumentInTx(p, next) ==
    /\ IF op[p].doc \in DocIdsOf(documents)
       THEN /\ dirty' = [dirty EXCEPT ![p] = FreshSnapshot]
            /\ Goto(p, next)
            /\ UNCHANGED <<op, wr>>
       ELSE /\ Rollback(p)
            /\ Return(p, NotFound, NoId)
    /\ UNCHANGED <<documents, permissions, guests, now, users, trav, usedIds, calls>>

UpGetDocument(p) ==
    /\ pc[p] = "up_get"
    /\ GetDocumentInTx(p, "up_upsert")

UpUpsert(p) ==
    /\ pc[p] = "up_upsert"
    /\ ~UpsertBlocked(p, op[p].user, op[p].doc)
    /\ LET r == UpsertSQL(p, op[p].user, op[p].doc, op[p].level, op[p].user)
       IN  IF r.ok
           THEN /\ Stage(p, r.wr)
                /\ Goto(p, "up_commit")
                /\ UNCHANGED op
           ELSE /\ Rollback(p)
                /\ Return(p, RepoImpl, NoId)
    /\ UNCHANGED <<now, users, trav, usedIds, calls>>

UpCommit(p) ==
    /\ pc[p] = "up_commit"
    /\ Publish(p, wr[p])
    /\ Return(p, Ok, op[p].doc)
    /\ UNCHANGED <<now, users, trav, usedIds, calls>>

\* the service layer passes every level on to the repository
StartCreateGuestAnyLevel(p, creator, d, lvl) ==
    /\ Accept(p)
    /\ \E g \in GuestIds \ usedIds :
        /\ usedIds' = usedIds \cup {g}
        /\ op' = [op EXCEPT ![p] = [NoOp EXCEPT !.name = "CreateGuest", !.user = creator,
                                                !.doc = d, !.level = lvl, !.start = now,
                                                !.guest = g]]
    /\ Goto(p, "cg_get")
    /\ UNCHANGED <<documents, permissions, guests, now, users, trav, wr, dirty>>

\* --------------------------------------------------------------- CreateGuest
\* service layer: owner is InvalidInput; repository: guestId = uuid.New(),
\* BeginTx(RepeatableRead)
StartCreateGuest(p, creator, d, lvl) ==
    /\ Accept(p)
    /\ LET call == [NoOp EXCEPT !.name = "CreateGuest", !.user = creator,
                                !.doc = d, !.level = lvl, !.start = now]
       IN  IF lvl = Owner
           THEN /\ Reject(p, call, InvalidInput)
                /\ UNCHANGED usedIds
           ELSE /\ \E g \in GuestIds \ usedIds :
                    /\ usedIds' = usedIds \cup {g}
                    /\ op' = [op EXCEPT ![p] = [call EXCEPT !.guest = g]]
                /\ Goto(p, "cg_get")
    /\ UNCHANGED <<documents, permissions, guests, now, users, trav, wr, dirty>>

CgGetDocument(p) ==
    /\ pc[p] = "cg_get"
    /\ GetDocumentInTx(p, "cg_guest")

\* INSERT INTO guests (id, document_id, created_by) VALUES ($1, $2, $3)
CgInsertGuest(p) ==
    /\ pc[p] = "cg_guest"
    /\ ~DocLockedByOther(p, op[p].doc)
    /\ IF ParentMissing(p, op[p].doc)
       THEN /\ Rollback(p)
            /\ Return(p, RepoImpl, NoId)
       ELSE /\ Stage(p, [wr[p] EXCEPT
                   !.insGuests = @ \cup {GuestRow(op[p].guest, op[p].doc, op[p].user)},
                   !.keyShare = @ \cup ({op[p].doc} \cap DocIdsOf(documents))])
            /\ Goto(p, "cg_perm")
            /\ UNCHANGED op
    /\ UNCHANGED <<now, users, trav, usedIds, calls>>

\* INSERT INTO permissions (...) VALUES ($1, 'guest', $2, $3, $4)
CgInsertPermission(p) ==
    /\ pc[p] = "cg_perm"
    /\ ~PermLockedByOther(p, <<op[p].guest, op[p].doc>>)
    /\ ~DocLockedByOther(p, op[p].doc)
    /\ IF \E r \in CurPerms(p) : PermKey(r) = <<op[p].guest, op[p].doc>>
       THEN /\ Rollback(p)
            /\ Return(p, "UniqueConflict", NoId)
       ELSE IF ParentMissing(p, op[p].doc)
       THEN /\ Rollback(p)
            /\ Return(p, RepoImpl, NoId)
       ELSE /\ Stage(p, [wr[p] EXCEPT
                   !.insPerms = @ \cup {PermissionRow(op[p].guest, Guest, op[p].doc,
                                            op[p].level, op[p].user, op[p].start)},
                   !.keyShare = @ \cup ({op[p].doc} \cap DocIdsOf(documents))])
            /\ Goto(p, "cg_commit")
            /\ UNCHANGED op
    /\ UNCHANGED <<now, users, trav, usedIds, calls>>

CgCommit(p) ==
    /\ pc[p] = "cg_commit"
    /\ Publish(p, wr[p])
    /\ Return(p, Ok, op[p].guest)
    /\ UNCHANGED <<now, users, trav, usedIds, calls>>

\* the service layer passes every level on to the repository
StartUpdatePermissionGuestAnyLevel(p, g, lvl) ==
    /\ Accept(p)
    /\ op' = [op EXCEPT ![p] = [NoOp EXCEPT !.name = "UpdatePermissionGuest", !.guest = g,
                                            !.level = lvl, !.start = now]]
    /\ Goto(p, "ug_select")
    /\ UNCHANGED <<documents, permissions, guests, now, users, trav, usedIds, wr, dirty>>

\* ----------------------------------------------------- UpdatePermissionGuest
\* service layer: owner is InvalidInput; repository: two statements on the
\* pool, no transaction
StartUpdatePermissionGuest(p, g, lvl) ==
    /\ Accept(p)
    /\ LET call == [NoOp EXCEPT !.name = "UpdatePermissionGuest", !.guest = g,
                                !.level = lvl, !.start = now]
       IN  IF lvl = Owner
           THEN Reject(p, call, InvalidInput)
           ELSE /\ op' = [op EXCEPT ![p] = call]
                /\ Goto(p, "ug_select")
    /\ UNCHANGED <<documents, permissions, guests, now, users, trav, usedIds, wr, dirty>>

\* SelectGuest: resolves the guest's document_id
UgSelectGuest(p) ==
    /\ pc[p] = "ug_select"
    /\ LET found == {g \in guests : g.id = op[p].guest}
       IN  IF found = {}
           THEN Return(p, NotFound, NoId)
           ELSE /\ op' = [op EXCEPT ![p].doc = (CHOOSE g \in found : TRUE).document_id]
                /\ Goto(p, "ug_update")
    /\ UNCHANGED <<documents, permissions, guests, now, users, trav, usedIds, wr, dirty, calls>>

\* an update that writes the guest's row when it finds none
UgUpsertPermission(p) ==
    /\ pc[p] = "ug_update"
    /\ LET k == <<op[p].guest, op[p].doc>>
           hit == {r \in permissions : PermKey(r) = k /\ r.recipient_type = Guest}
       IN  /\ ~PermLockedByOther(p, k)
           /\ Publish(p, [NoWrites EXCEPT
                  !.delPerms = {k},
                  !.insPerms =
                      IF hit = {}
                      THEN {PermissionRow(op[p].guest, Guest, op[p].doc, op[p].level,
                                          op[p].guest, now)}
                      ELSE {[r EXCEPT !.permission_level = op[p].level,
                                      !.last_modified_at = now] : r \in hit}])
           /\ Return(p, Ok, op[p].guest)
    /\ UNCHANGED <<now, users, trav, usedIds, calls>>

\* UPDATE permissions SET permission_level = $3, last_modified_at = NOW()
\* WHERE recipient_id = $1 AND document_id = $2 AND recipient_type = 'guest'
UgUpdatePermission(p) ==
    /\ pc[p] = "ug_update"
    /\ LET k == <<op[p].guest, op[p].doc>>
           hit == {r \in permissions : PermKey(r) = k /\ r.recipient_type = Guest}
       IN  /\ ~PermLockedByOther(p, k)
           /\ IF hit = {}
              THEN /\ Return(p, NotFound, NoId)
                   /\ UNCHANGED <<documents, permissions, guests, wr, dirty>>
              ELSE /\ Publish(p, [NoWrites EXCEPT
                          !.delPerms = {k},
                          !.insPerms = {[r EXCEPT !.permission_level = op[p].level,
                                                  !.last_modified_at = now] : r \in hit}])
                   /\ Return(p, Ok, op[p].guest)
    /\ UNCHANGED <<now, users, trav, usedIds, calls>>

\* ------------------------------------------------ DeletePermissionsPrincipal
\* DELETE FROM permissions WHERE recipient_id = $1 AND document_id = $2
DeletePermissionsPrincipalAndGuest(p, r, d) ==
    /\ Accept(p)
    /\ ~PermLockedByOther(p, <<r, d>>)
    /\ LET call == [NoOp EXCEPT !.name = "DeletePermissionsPrincipal",
                                !.user = r, !.doc = d, !.start = now]
       IN  IF \E x \in permissions : PermKey(x) = <<r, d>>
           THEN /\ Publish(p, [NoWrites EXCEPT !.delPerms = {<<r, d>>},
                                               !.delGuests = {r}])
                /\ Reject(p, call, Ok)
           ELSE /\ Reject(p, call, NotFound)
                /\ UNCHANGED <<documents, permissions, guests, wr, dirty>>
    /\ UNCHANGED <<now, users, trav, usedIds>>

DeletePermissionsPrincipal(p, r, d) ==
    /\ Accept(p)
    /\ ~PermLockedByOther(p, <<r, d>>)
    /\ LET call == [NoOp EXCEPT !.name = "DeletePermissionsPrincipal",
                                !.user = r, !.doc = d, !.start = now]
       IN  IF \E x \in permissions : PermKey(x) = <<r, d>>
           THEN /\ Publish(p, [NoWrites EXCEPT !.delPerms = {<<r, d>>}])
                /\ Reject(p, call, Ok)
           ELSE /\ Reject(p, call, NotFound)
                /\ UNCHANGED <<documents, permissions, guests, wr, dirty>>
    /\ UNCHANGED <<now, users, trav, usedIds>>

\* ------------------------------------------------------------ specification
KnownPrincipals == UserIds \cup (GuestIds \cap usedIds)

Next ==
    \E p \in Procs :
        \/ \E u \in UserIds : StartCreateDocument(p, u)
        \/ CdInsertDocument(p)
        \/ CdUpsertPermission(p)
        \/ CdCommit(p)
        \/ \E d \in DocIds : StartDeleteDocument(p, d)
        \/ \E ids \in BatchLists : StartDeleteDocuments(p, ids)
        \/ HelperDeletePermissions(p)
        \/ HelperDeleteGuests(p)
        \/ HelperDeleteDocument(p)
        \/ DeleteCommit(p)
        \/ \E u \in KnownPrincipals, d \in DocIds, lvl \in AllPermissions :
               StartUpsertPermissionUser(p, u, d, lvl)
        \/ UpGetDocument(p)
        \/ UpUpsert(p)
        \/ UpCommit(p)
        \/ \E u \in UserIds, d \in DocIds, lvl \in AllPermissions :
               StartCreateGuest(p, u, d, lvl)
        \/ CgGetDocument(p)
        \/ CgInsertGuest(p)
        \/ CgInsertPermission(p)
        \/ CgCommit(p)
        \/ \E g \in GuestIds, lvl \in AllPermissions :
               StartUpdatePermissionGuest(p, g, lvl)
        \/ UgSelectGuest(p)
        \/ UgUpdatePermission(p)
        \/ \E r \in KnownPrincipals, d \in DocIds : DeletePermissionsPrincipal(p, r, d)
        \/ Fail(p)
        \/ Respond(p)

Spec == Init /\ [][Next]_vars

\* ------------------------------------------------------------------ listings
CreatedAt == "created_at"
LastModifiedAt == "last_modified_at"
SortFields == {CreatedAt, LastModifiedAt}
DefaultPageSize == 10
MaxPageSize == 100
\* the pagination scenario: documents shared with the reader, documents
\* inserted after the first page, the page size and the clock values
ScenarioDocs == 5
ScenarioNew == 2
ScenarioPage == 3
ScenarioTime == 2
ScenarioIds == 1..(ScenarioDocs + ScenarioNew)

\* ffffffff-ffff-ffff-ffff-ffffffffffff: above every id a run mints
MaxDocumentID == MaxDocs + NumUsers + MaxGuests + ScenarioDocs + ScenarioNew + 1

Cursor(sf, t, id) == [sort_field |-> sf, last_seen_time |-> t, last_seen_id |-> id]
NewBeginningCursor(sf) == Cursor(sf, now, MaxDocumentID)

SortTime(row, sf) == IF sf = CreatedAt THEN row.created_at ELSE row.last_modified_at

\* WHERE (t < $2 OR (t = $2 AND id < $3))
AfterCursorInclusive(t, id, c) ==
    t < c.last_seen_time \/ (t = c.last_seen_time /\ id <= c.last_seen_id)

AfterCursor(t, id, c) ==
    t < c.last_seen_time \/ (t = c.last_seen_time /\ id < c.last_seen_id)

\* ORDER BY t DESC, id DESC
Precedes(t1, id1, t2, id2) == t1 > t2 \/ (t1 = t2 /\ id1 > id2)

DocumentMatchesAnyLevel(docs, perms, principal, filter, c) ==
    {[document |-> d, permission_level |-> r.permission_level] :
        <<d, r>> \in {x \in docs \X perms :
            /\ x[1].id = x[2].document_id
            /\ AfterCursor(SortTime(x[1], c.sort_field), x[1].id, c)
            /\ x[2].recipient_id = principal}}

\* ListDocumentsByCreatedAt / ListDocumentsByLastModifiedAt
DocumentMatches(docs, perms, principal, filter, c) ==
    {[document |-> d, permission_level |-> r.permission_level] :
        <<d, r>> \in {x \in docs \X perms :
            /\ x[1].id = x[2].document_id
            /\ AfterCursor(SortTime(x[1], c.sort_field), x[1].id, c)
            /\ x[2].permission_level \in filter
            /\ x[2].recipient_id = principal}}

RECURSIVE DocumentPage(_, _, _)
DocumentPage(rows, sf, limit) ==
    IF limit = 0 \/ rows = {} THEN <<>>
    ELSE LET first == CHOOSE x \in rows : \A y \in rows \ {x} :
                          Precedes(SortTime(x.document, sf), x.document.id,
                                   SortTime(y.document, sf), y.document.id)
         IN  <<first>> \o DocumentPage(rows \ {first}, sf, limit - 1)

ListDocumentsSQL(docs, perms, principal, filter, c, limit) ==
    DocumentPage(DocumentMatches(docs, perms, principal, filter, c), c.sort_field, limit)

\* ListDocumentsByPrincipal of the repository: the page and the response cursor
ListDocumentsByPrincipalFirstRow(docs, perms, principal, filter, c, pageSize) ==
    LET page == ListDocumentsSQL(docs, perms, principal, filter, c, pageSize)
        first == page[1].document
    IN  [rows |-> page,
         cursor |-> IF Len(page) > 0
                    THEN Cursor(c.sort_field, SortTime(first, c.sort_field), first.id)
                    ELSE Cursor(c.sort_field, c.last_seen_time, c.last_seen_id)]

ListDocumentsByPrincipal(docs, perms, principal, filter, c, pageSize) ==
    LET page == ListDocumentsSQL(docs, perms, principal, filter, c, pageSize)
        last == page[Len(page)].document
    IN  [rows |-> page,
         cursor |-> IF Len(page) > 0
                    THEN Cursor(c.sort_field, SortTime(last, c.sort_field), last.id)
                    ELSE Cursor(c.sort_field, c.last_seen_time, c.last_seen_id)]

\* ------------------------------------------- ListPermissionsOnDocument
\* ListPermissionOnDocumentCreatedAt / ListPermissionOnDocumentLastModifiedAt:
\* the keyset query over the permission rows of one document, with the
\* parameters readPermissions passes (document, cursor time, cursor
\* recipient id, permission list, limit).
PermissionMatches(perms, d, filter, c) ==
    {r \in perms :
        /\ r.document_id = d
        /\ AfterCursor(SortTime(r, c.sort_field), r.recipient_id, c)
        /\ r.permission_level \in filter}

RECURSIVE PermissionPage(_, _, _)
PermissionPage(rows, sf, limit) ==
    IF limit = 0 \/ rows = {} THEN <<>>
    ELSE LET first == CHOOSE x \in rows : \A y \in rows \ {x} :
                          Precedes(SortTime(x, sf), x.recipient_id,
                                   SortTime(y, sf), y.recipient_id)
         IN  <<first>> \o PermissionPage(rows \ {first}, sf, limit - 1)

readPermissions(perms, d, filter, c, limit) ==
    PermissionPage(PermissionMatches(perms, d, filter, c), c.sort_field, limit)

\* sqlc.Permission -> service.Permission
repoToServicePermission(row) ==
    [recipient_id |-> row.recipient_id,
     recipient_type |-> row.recipient_type,
     document_id |-> row.document_id,
     permission_level |-> row.permission_level,
     created_by |-> row.created_by,
     created_at |-> row.created_at,
     last_modified_at |-> row.created_at]

\* the page is read without asking whether the document exists
ListPermissionsOnDocumentNoGate(docs, perms, d, filter, c, pageSize) ==
    LET repoPermissions == readPermissions(perms, d, filter, c, pageSize)
        page == [i \in 1..Len(repoPermissions) |->
                    repoToServicePermission(repoPermissions[i])]
        last == page[Len(page)]
    IN  [status |-> Ok,
         rows |-> page,
         cursor |-> IF Len(page) > 0
                    THEN Cursor(c.sort_field, SortTime(last, c.sort_field),
                                last.recipient_id)
                    ELSE Cursor(c.sort_field, c.last_seen_time, c.last_seen_id)]

ListPermissionsOnDocumentResetCursor(docs, perms, d, filter, c, pageSize) ==
    IF d \notin DocIdsOf(docs)
    THEN [status |-> NotFound, rows |-> <<>>, cursor |-> c]
    ELSE LET repoPermissions == readPermissions(perms, d, filter, c, pageSize)
             page == [i \in 1..Len(repoPermissions) |->
                         repoToServicePermission(repoPermissions[i])]
             last == page[Len(page)]
         IN  [status |-> Ok,
              rows |-> page,
              cursor |-> IF Len(page) > 0
                         THEN Cursor(c.sort_field, SortTime(last, c.sort_field),
                                     last.recipient_id)
                         ELSE NewBeginningCursor(c.sort_field)]

\* ListPermissionsOnDocument of the repository: existence gate, page and
\* response cursor. Both statements read the snapshot of one
\* repeatable-read unit.
ListPermissionsOnDocument(docs, perms, d, filter, c, pageSize) ==
    IF d \notin DocIdsOf(docs)
    THEN [status |-> NotFound, rows |-> <<>>, cursor |-> c]
    ELSE LET repoPermissions == readPermissions(perms, d, filter, c, pageSize)
             page == [i \in 1..Len(repoPermissions) |->
                         repoToServicePermission(repoPermissions[i])]
             last == page[Len(page)]
         IN  [status |-> Ok,
              rows |-> page,
              cursor |-> IF Len(page) > 0
                         THEN Cursor(c.sort_field, SortTime(last, c.sort_field),
                                     last.recipient_id)
                         ELSE Cursor(c.sort_field, c.last_seen_time, c.last_seen_id)]

\* --------------------------------------------- listings under mutation
\* SpecList: a client walks one listing page by page while other callers
\* mutate the tables. A listing is one read of committed rows, so every
\* other call takes part with its committed effect only. Rows written in a
\* transaction carry NOW() of the transaction's start, which may lie before
\* the clock value at commit.
MaxTime == 1
MaxPage == 2
MaxFetches == 4

PageSizes == 1..MaxPage
Filters == {AllPermissions, {Viewer}}
DocNames == {"updated document"}
Handlers == <<pc, op, wr, dirty, res>>

\* the rows a documents traversal is about: the documents on which the
\* principal holds a level of the filter
Shared(docs, perms, principal, filter) ==
    {d \in DocIdsOf(docs) :
        \E r \in perms : /\ r.document_id = d /\ r.recipient_id = principal
                         /\ r.permission_level \in filter}

\* A committed mutation, seen from the traversal under way. The client's
\* record of the traversal: quiet (no mutation since it began), pending (the
\* documents that matched an earlier fetch, were cut off by its limit and
\* have qualified ever since), gained (a document came to qualify since the
\* last fetch), marks (gained, as it stood at each fetch) and tested (the
\* documents that were pending when a mutation committed).
Mutation(docs, perms) ==
    /\ calls < MaxCalls
    /\ calls' = calls + 1
    /\ trav' = IF trav.kind = "none" THEN trav
               ELSE [trav EXCEPT
                        !.quiet = FALSE,
                        !.gained = @ \/ (trav.kind = "documents" /\
                            Shared(docs, perms, trav.target, trav.filter) \
                            Shared(documents, permissions, trav.target, trav.filter) # {}),
                        !.pending = @ \cap Shared(docs, perms, trav.target, trav.filter),
                        !.tested = @ \cup (trav.pending \cap
                            Shared(docs, perms, trav.target, trav.filter))]

Tick ==
    /\ now < MaxTime
    /\ now' = now + 1
    /\ UNCHANGED <<users, documents, permissions, guests, usedIds, calls, trav, Handlers>>

CreateDocument(u, t) ==
    /\ \E id \in DocIds \ usedIds :
        /\ usedIds' = usedIds \cup {id}
        /\ documents' = documents \cup {DocumentRow(id, t)}
        /\ permissions' = permissions \cup {PermissionRow(u, User, id, Owner, u, t)}
    /\ Mutation(documents', permissions')
    /\ UNCHANGED <<guests, now, users, Handlers>>

\* UPDATE documents SET name = COALESCE($2, name), ... WHERE id = $1
UpdateDocumentTouch(d, name) ==
    /\ d \in DocIdsOf(documents)
    /\ documents' = {IF x.id = d
                     THEN [x EXCEPT !.name = name, !.last_modified_at = now]
                     ELSE x : x \in documents}
    /\ Mutation(documents', permissions)
    /\ UNCHANGED <<permissions, guests, now, users, usedIds, Handlers>>

UpdateDocument(d, name) ==
    /\ d \in DocIdsOf(documents)
    /\ documents' = {IF x.id = d THEN [x EXCEPT !.name = name] ELSE x : x \in documents}
    /\ Mutation(documents', permissions)
    /\ UNCHANGED <<permissions, guests, now, users, usedIds, Handlers>>

DeleteDocument(d) ==
    /\ d \in DocIdsOf(documents)
    /\ documents' = {x \in documents : x.id # d}
    /\ permissions' = Without(permissions, {d})
    /\ guests' = Without(guests, {d})
    /\ Mutation(documents', permissions')
    /\ UNCHANGED <<now, users, usedIds, Handlers>>

UpsertPermissionUser(u, d, lvl, t) ==
    /\ d \in DocIdsOf(documents)
    /\ lvl # Owner
    /\ LET cur == {r \in permissions : PermKey(r) = <<u, d>>}
       IN  permissions' =
               IF cur = {}
               THEN permissions \cup {PermissionRow(u, User, d, lvl, u, t)}
               ELSE (permissions \ cur) \cup
                    {[r EXCEPT !.permission_level = lvl,
                               !.last_modified_at = t] : r \in cur}
    /\ Mutation(documents, permissions')
    /\ UNCHANGED <<documents, guests, now, users, usedIds, Handlers>>

CreateGuest(creator, d, lvl, t) ==
    /\ d \in DocIdsOf(documents)
    /\ lvl # Owner
    /\ \E g \in GuestIds \ usedIds :
        /\ usedIds' = usedIds \cup {g}
        /\ guests' = guests \cup {GuestRow(g, d, creator)}
        /\ permissions' = permissions \cup {PermissionRow(g, Guest, d, lvl, creator, t)}
    /\ Mutation(documents, permissions')
    /\ UNCHANGED <<documents, now, users, Handlers>>

UpdatePermissionGuest(g, lvl) ==
    /\ lvl # Owner
    /\ \E row \in guests :
        /\ row.id = g
        /\ LET hit == {r \in permissions :
                          /\ PermKey(r) = <<g, row.document_id>>
                          /\ r.recipient_type = Guest}
           IN  /\ hit # {}
               /\ permissions' = (permissions \ hit) \cup
                      {[r EXCEPT !.permission_level = lvl,
                                 !.last_modified_at = now] : r \in hit}
    /\ Mutation(documents, permissions')
    /\ UNCHANGED <<documents, guests, now, users, usedIds, Handlers>>

DeletePermissionPrincipal(r, d) ==
    /\ \E row \in permissions : PermKey(row) = <<r, d>>
    /\ permissions' = {row \in permissions : PermKey(row) # <<r, d>>}
    /\ Mutation(documents, permissions')
    /\ UNCHANGED <<documents, guests, now, users, usedIds, Handlers>>

\* the client takes a beginning cursor for a listing
BeginTraversal(kind, target, filter, sf, size) ==
    /\ trav.kind = "none"
    /\ trav' = [NoTraversal EXCEPT !.kind = kind, !.target = target,
                                   !.filter = filter, !.page_size = size,
                                   !.cursor = NewBeginningCursor(sf)]
    /\ UNCHANGED <<documents, permissions, guests, now, users, usedIds, calls, Handlers>>

\* the client fetches the next page with the cursor of the last response
FetchDocuments ==
    /\ trav.kind = "documents"
    /\ ~trav.done
    /\ Len(trav.pages) < MaxFetches
    /\ LET r == ListDocumentsByPrincipal(documents, permissions, trav.target,
                                         trav.filter, trav.cursor, trav.page_size)
           matched == {x.document.id :
                          x \in DocumentMatches(documents, permissions, trav.target,
                                                trav.filter, trav.cursor)}
           got == {r.rows[i].document.id : i \in 1..Len(r.rows)}
       IN  trav' = [trav EXCEPT !.cursor = r.cursor,
                                !.sent = trav.cursor,
                                !.pages = Append(@, r.rows),
                                !.pending = (@ \cup matched) \ got,
                                !.marks = Append(@, trav.gained),
                                !.gained = FALSE,
                                !.status = Ok,
                                !.done = (Len(r.rows) = 0)]
    /\ UNCHANGED <<documents, permissions, guests, now, users, usedIds, calls, Handlers>>

FetchPermissions ==
    /\ trav.kind = "permissions"
    /\ ~trav.done
    /\ Len(trav.pages) < MaxFetches
    /\ LET r == ListPermissionsOnDocument(documents, permissions, trav.target,
                                          trav.filter, trav.cursor, trav.page_size)
       IN  trav' = [trav EXCEPT !.cursor = r.cursor,
                                !.sent = trav.cursor,
                                !.pages = Append(@, r.rows),
                                !.status = r.status,
                                !.done = (Len(r.rows) = 0)]
    /\ UNCHANGED <<documents, permissions, guests, now, users, usedIds, calls, Handlers>>

Times == 0..now

\* listing a principal's documents while documents and user permissions change
NextList ==
    \/ Tick
    \/ \E u \in UserIds, t \in Times : CreateDocument(u, t)
    \/ \E d \in DocIds, name \in DocNames : UpdateDocument(d, name)
    \/ \E d \in DocIds : DeleteDocument(d)
    \/ \E u \in UserIds, d \in DocIds, lvl \in AllPermissions, t \in Times :
           UpsertPermissionUser(u, d, lvl, t)
    \/ \E r \in UserIds, d \in DocIds : DeletePermissionPrincipal(r, d)
    \/ \E u \in UserIds, filter \in Filters, sf \in SortFields, size \in PageSizes :
           BeginTraversal("documents", u, filter, sf, size)
    \/ FetchDocuments

SpecList == Init /\ [][NextList]_vars

\* listing the permissions on a document while its permissions change
NextPermissions ==
    \/ Tick
    \/ \E u \in UserIds, t \in Times : CreateDocument(u, t)
    \/ \E d \in DocIds : DeleteDocument(d)
    \/ \E u \in UserIds, d \in DocIds, lvl \in AllPermissions, t \in Times :
           UpsertPermissionUser(u, d, lvl, t)
    \/ \E creator \in UserIds, d \in DocIds, lvl \in AllPermissions, t \in Times :
           CreateGuest(creator, d, lvl, t)
    \/ \E g \in GuestIds, lvl \in AllPermissions : UpdatePermissionGuest(g, lvl)
    \/ \E r \in KnownPrincipals, d \in DocIds : DeletePermissionPrincipal(r, d)
    \/ \E d \in DocIds, filter \in Filters, sf \in SortFields, size \in PageSizes :
           BeginTraversal("permissions", d, filter, sf, size)
    \/ FetchPermissions

SpecPermissions == Init /\ [][NextPermissions]_vars

\* either listing, walked from a beginning cursor while documents and user
\* permissions change
NextListings ==
    \/ NextList
    \/ \E d \in DocIds, filter \in Filters, sf \in SortFields, size \in PageSizes :
           BeginTraversal("permissions", d, filter, sf, size)
    \/ FetchPermissions

SpecListings == Init /\ [][NextListings]_vars

\* ------------------------------------------ list requests at the gRPC server
\* A list request as the gateway and the client build it: the cursor is a nil
\* pointer when the caller gave none, the page size is absent when the caller
\* gave none. SORT_FIELD_UNSPECIFIED is the zero value of the sort field.
Panic == "Panic"
Unspecified == "unspecified"
NoTime == -1
NoPageSize == -1
NilCursor == [nil |-> TRUE]
PbCursor(sf, t, id) ==
    [nil |-> FALSE, sort_field |-> sf, last_seen_time |-> t, last_seen_document_id |-> id]

\* parseServiceCursor reads reqCursor.SortField first: on a nil cursor this is
\* a nil-pointer dereference, a panic of the handler's goroutine, and the
\* server installs no recovery interceptor.
parseServiceCursor(reqCursor) ==
    IF reqCursor.nil THEN [status |-> Panic]
    ELSE IF reqCursor.sort_field \notin SortFields THEN [status |-> InvalidInput]
    ELSE IF reqCursor.last_seen_time = NoTime
         THEN [status |-> Ok, cursor |-> NewBeginningCursor(reqCursor.sort_field)]
    ELSE [status |-> Ok,
          cursor |-> Cursor(reqCursor.sort_field, reqCursor.last_seen_time,
                            IF reqCursor.last_seen_document_id = NoId
                            THEN MaxDocumentID
                            ELSE reqCursor.last_seen_document_id)]

\* the defaults of the service layer
DefaultFilter(levels) == IF levels = {} THEN AllPermissions ELSE levels
DefaultCursor(cursor) == IF cursor = NilCursor THEN NewBeginningCursor(CreatedAt) ELSE cursor
DefaultSize(pageSize) ==
    IF pageSize < 1 \/ pageSize > MaxPageSize THEN DefaultPageSize ELSE pageSize

\* DocumentService.ListDocumentsByPrincipal
ServiceListDocumentsByPrincipal(docs, perms, principal, filter, cursor, pageSize) ==
    LET r == ListDocumentsByPrincipal(docs, perms, principal, DefaultFilter(filter),
                                      DefaultCursor(cursor), DefaultSize(pageSize))
    IN  [status |-> Ok, rows |-> r.rows, cursor |-> r.cursor]

\* DocumentService.ListPermissionsOnDocument
ServiceListPermissionsOnDocument(docs, perms, d, filter, cursor, pageSize) ==
    ListPermissionsOnDocument(docs, perms, d, DefaultFilter(filter),
                              DefaultCursor(cursor), DefaultSize(pageSize))

Failed(status) == [status |-> status, rows |-> <<>>, cursor |-> NoTraversal.cursor]

\* DocumentServiceServerImpl.ListDocumentsByPrincipal
ServerListDocumentsByPrincipal(docs, perms, principal, filter, reqCursor, reqSize) ==
    LET parsed == parseServiceCursor(reqCursor)
    IN  IF parsed.status # Ok THEN Failed(parsed.status)
        ELSE ServiceListDocumentsByPrincipal(
                 docs, perms, principal, filter, parsed.cursor,
                 IF reqSize = NoPageSize THEN DefaultPageSize ELSE reqSize)

\* DocumentServiceServerImpl.ListPermissionsOnDocument
ServerListPermissionsOnDocument(docs, perms, d, filter, reqCursor, reqSize) ==
    LET parsed == parseServiceCursor(reqCursor)
    IN  IF parsed.status # Ok THEN Failed(parsed.status)
        ELSE ServiceListPermissionsOnDocument(
                 docs, perms, d, filter, parsed.cursor,
                 IF reqSize = NoPageSize THEN DefaultPageSize ELSE reqSize)

RequestCursors ==
    {NilCursor} \cup
    {PbCursor(sf, NoTime, NoId) : sf \in SortFields \cup {Unspecified}} \cup
    {PbCursor(sf, now, NoId) : sf \in SortFields}
RequestFilters == {{}, {Viewer}}
RequestSizes == {NoPageSize, 1}

\* the response to one list request
Served(kind, target, filter, reqCursor, reqSize, r) ==
    [NoTraversal EXCEPT !.kind = kind, !.target = target, !.filter = filter,
                        !.page_size = reqSize, !.request = reqCursor,
                        !.cursor = r.cursor,
                        !.pages = IF r.status = Ok THEN <<r.rows>> ELSE <<>>,
                        !.status = r.status, !.done = TRUE]

ServeListDocumentsByPrincipal(principal, filter, reqCursor, reqSize) ==
    /\ trav.kind = "none"
    /\ trav' = Served("documents", principal, filter, reqCursor, reqSize,
                      ServerListDocumentsByPrincipal(documents, permissions, principal,
                                                     filter, reqCursor, reqSize))
    /\ UNCHANGED <<documents, permissions, guests, now, users, usedIds, calls, Handlers>>

ServeListPermissionsOnDocument(d, filter, reqCursor, reqSize) ==
    /\ trav.kind = "none"
    /\ trav' = Served("permissions", d, filter, reqCursor, reqSize,
                      ServerListPermissionsOnDocument(documents, permissions, d,
                                                      filter, reqCursor, reqSize))
    /\ UNCHANGED <<documents, permissions, guests, now, users, usedIds, calls, Handlers>>

\* one list request through the server, after documents and user permissions
\* changed
NextRequests ==
    \/ Tick
    \/ \E u \in UserIds, t \in Times : CreateDocument(u, t)
    \/ \E d \in DocIds : DeleteDocument(d)
    \/ \E u \in UserIds, d \in DocIds, lvl \in AllPermissions, t \in Times :
           UpsertPermissionUser(u, d, lvl, t)
    \/ \E u \in UserIds, filter \in RequestFilters, c \in RequestCursors,
          size \in RequestSizes :
           ServeListDocumentsByPrincipal(u, filter, c, size)
    \/ \E d \in DocIds, filter \in RequestFilters, c \in RequestCursors,
          size \in RequestSizes :
           ServeListPermissionsOnDocument(d, filter, c, size)

SpecRequests == Init /\ [][NextRequests]_vars

\* ------------------------------------------- cursor pagination over inserts
\* SpecScenario: documents of the reader are inserted, the reader fetches a
\* first page from a beginning cursor on created_at, newer documents are
\* inserted, and the reader goes on fetching with the cursor of each response.
Reader == 1

ScenarioTick ==
    /\ now < ScenarioTime
    /\ now' = now + 1
    /\ UNCHANGED <<users, documents, permissions, guests, usedIds, calls, trav, Handlers>>

\* CreateDocument by the reader, committed at the clock's value
ScenarioInsert(id) ==
    /\ id \in ScenarioIds \ usedIds
    /\ usedIds' = usedIds \cup {id}
    /\ documents' = documents \cup {DocumentRow(id, now)}
    /\ permissions' = permissions \cup {PermissionRow(Reader, User, id, Owner, Reader, now)}
    /\ UNCHANGED <<guests, now, users, calls, trav, Handlers>>

InsertOriginal(id) ==
    /\ trav.kind = "none"
    /\ Cardinality(documents) < ScenarioDocs
    /\ ScenarioInsert(id)

\* a newer document: its timestamps are greater than all prior ones
InsertNewer(id) ==
    /\ Len(trav.pages) = 1
    /\ Cardinality(documents) < ScenarioDocs + ScenarioNew
    /\ trav.pages[1][1].document.created_at < now
    /\ ScenarioInsert(id)

BeginScenario ==
    /\ Cardinality(documents) = ScenarioDocs
    /\ BeginTraversal("documents", Reader, AllPermissions, CreatedAt, ScenarioPage)

FetchScenario ==
    /\ Len(trav.pages) = 0 \/ Cardinality(documents) = ScenarioDocs + ScenarioNew
    /\ FetchDocuments

NextScenario ==
    \/ ScenarioTick
    \/ \E id \in ScenarioIds : InsertOriginal(id)
    \/ BeginScenario
    \/ \E id \in ScenarioIds : InsertNewer(id)
    \/ FetchScenario

SpecScenario == Init /\ [][NextScenario]_vars

\* ------------------------------------------------------------ user service
\* SpecUsers: handlers of the user service create users, change passwords
\* and validate passwords against table users. CreateUser and
\* ValidatePassword are one statement each; ModifyPassword is an atomic unit
\* of a locking read, an update and a commit.
MaxSalt == 2
MaxUserCalls == 3
Salts == 1..MaxSalt
Passwords == {"oldPass!1", "newPass!2", "newPass!3"}
UserNames == {"ada"}
PasswordMismatch == "PasswordMismatch"
UniqueConflict == "UniqueConflict"

\* bcrypt: a hash carries its salt and the digest of salt and password
Digest(salt, password) == <<salt, password>>
GenerateFromPassword(password, salt) ==
    [salt |-> salt, digest |-> Digest(salt, password)]
CompareHashAndPassword(hashed, password) ==
    hashed.digest = Digest(hashed.salt, password)

\* a row of users; credential is the row's history, kept for the claims: the
\* call that wrote the hash, with the passwords it was given
UserRow(id, name, hashed, credential) ==
    [id |-> id, user_name |-> name, hashed_password |-> hashed, is_active |-> TRUE,
     credential |-> credential]
UserById(id) == {u \in users : u.id = id}
UserByName(name) == {u \in users : u.user_name = name}

\* a call of ModifyPassword under way: read is the hash the locking read
\* returned, staged the hash the update wrote; call, correct (the old
\* password matched the committed hash when the request arrived) and overlaps
\* (the calls on the same user that were under way at some time during this
\* one) are kept for the claims
InModifyPassword(q) == pc[q] \in {"mp_select", "mp_update", "mp_commit"}
HoldsRowLock(q, id) == pc[q] \in {"mp_update", "mp_commit"} /\ op[q].user = id

\* SELECT ... FROM users WHERE id = $1 FOR UPDATE waits for the row lock
RowLocked(p, id) == \E q \in Procs \ {p} : HoldsRowLock(q, id)

UserUnchanged == UNCHANGED <<documents, permissions, guests, now, usedIds, wr, dirty, trav>>

\* CreateUser: hash the password, INSERT INTO users
UserCreateUser(p, name, password, salt) ==
    /\ pc[p] = "idle"
    /\ calls < MaxUserCalls
    /\ calls' = calls + 1
    /\ IF UserByName(name) # {}
       THEN /\ res' = [res EXCEPT ![p] = [call |-> "CreateUser", status |-> UniqueConflict,
                                          id |-> NoId]]
            /\ UNCHANGED users
       ELSE \E id \in UserIds \ {u.id : u \in users} :
            /\ users' = users \cup
                   {UserRow(id, name, GenerateFromPassword(password, salt),
                            [call |-> "CreateUser", old |-> Null, new |-> password])}
            /\ res' = [res EXCEPT ![p] = [call |-> "CreateUser", status |-> Ok, id |-> id]]
    /\ UNCHANGED <<pc, op>>
    /\ UserUnchanged

\* ValidatePassword: GetHashedPassword by user name, compare
UserValidatePassword(p, name, password) ==
    /\ pc[p] = "idle"
    /\ calls < MaxUserCalls
    /\ calls' = calls + 1
    /\ res' = [res EXCEPT ![p] =
           IF UserByName(name) = {}
           THEN [call |-> "ValidatePassword", status |-> NotFound, id |-> NoId,
                 n |-> calls + 1, valid |-> FALSE, name |-> name, password |-> password]
           ELSE LET row == CHOOSE u \in UserByName(name) : TRUE
                IN  IF CompareHashAndPassword(row.hashed_password, password)
                    THEN [call |-> "ValidatePassword", status |-> Ok, id |-> row.id,
                          n |-> calls + 1, valid |-> TRUE, name |-> name, password |-> password]
                    ELSE [call |-> "ValidatePassword", status |-> Ok, id |-> NoId,
                          n |-> calls + 1, valid |-> FALSE, name |-> name, password |-> password]]
    /\ UNCHANGED <<pc, op, users>>
    /\ UserUnchanged

\* ModifyPassword arrives: pool.Begin
StartModifyPassword(p, id, old, new) ==
    /\ pc[p] = "idle"
    /\ calls < MaxUserCalls
    /\ calls' = calls + 1
    /\ pc' = [pc EXCEPT ![p] = "mp_select"]
    /\ LET others == {q \in Procs \ {p} : InModifyPassword(q) /\ op[q].user = id}
       IN  op' = [q \in Procs |->
                 IF q = p
                 THEN [name |-> "ModifyPassword", user |-> id, old |-> old, new |-> new,
                       read |-> Null, staged |-> Null, call |-> calls + 1,
                       correct |-> \E u \in UserById(id) :
                                       CompareHashAndPassword(u.hashed_password, old),
                       overlaps |-> {op[q2].call : q2 \in others}]
                 ELSE IF q \in others
                 THEN [op[q] EXCEPT !.overlaps = @ \cup {calls + 1}]
                 ELSE op[q]]
    /\ UNCHANGED <<res, users>>
    /\ UserUnchanged

\* what a call of ModifyPassword returns, with the call's record
ModifyPasswordReturns(p, status) ==
    /\ pc' = [pc EXCEPT ![p] = "idle"]
    /\ res' = [res EXCEPT ![p] =
           [call |-> "ChangePassword", status |-> status, id |-> op[p].user,
            old |-> op[p].old, new |-> op[p].new, n |-> op[p].call,
            correct |-> op[p].correct, overlaps |-> op[p].overlaps]]
    /\ op' = [op EXCEPT ![p] = NoOp]

\* GetUserById in place of GetUserForUpdate: a read that takes no lock
ModifyPasswordGetUserById(p) ==
    /\ pc[p] = "mp_select"
    /\ IF UserById(op[p].user) = {}
       THEN ModifyPasswordReturns(p, NotFound)
       ELSE LET row == CHOOSE u \in UserById(op[p].user) : TRUE
            IN  IF CompareHashAndPassword(row.hashed_password, op[p].old)
                THEN /\ pc' = [pc EXCEPT ![p] = "mp_update"]
                     /\ op' = [op EXCEPT ![p].read = row.hashed_password]
                     /\ UNCHANGED res
                ELSE ModifyPasswordReturns(p, PasswordMismatch)
    /\ UNCHANGED <<users, calls>>
    /\ UserUnchanged

\* GetUserForUpdate, then the comparison of the old password with the hash
\* read; a mismatch returns through the deferred rollback
ModifyPasswordGetUserForUpdate(p) ==
    /\ pc[p] = "mp_select"
    /\ ~RowLocked(p, op[p].user)
    /\ IF UserById(op[p].user) = {}
       THEN ModifyPasswordReturns(p, NotFound)
       ELSE LET row == CHOOSE u \in UserById(op[p].user) : TRUE
            IN  IF CompareHashAndPassword(row.hashed_password, op[p].old)
                THEN /\ pc' = [pc EXCEPT ![p] = "mp_update"]
                     /\ op' = [op EXCEPT ![p].read = row.hashed_password]
                     /\ UNCHANGED res
                ELSE ModifyPasswordReturns(p, PasswordMismatch)
    /\ UNCHANGED <<users, calls>>
    /\ UserUnchanged

\* the update writes back the hash that was read
ModifyPasswordChangeUserPasswordStale(p, salt) ==
    /\ pc[p] = "mp_update"
    /\ pc' = [pc EXCEPT ![p] = "mp_commit"]
    /\ op' = [op EXCEPT ![p].staged = op[p].read]
    /\ UNCHANGED <<res, users, calls>>
    /\ UserUnchanged

\* hash the new password, ChangeUserPassword inside the unit
ModifyPasswordChangeUserPassword(p, salt) ==
    /\ pc[p] = "mp_update"
    /\ pc' = [pc EXCEPT ![p] = "mp_commit"]
    /\ op' = [op EXCEPT ![p].staged = GenerateFromPassword(op[p].new, salt)]
    /\ UNCHANGED <<res, users, calls>>
    /\ UserUnchanged

\* tx.Commit
ModifyPasswordCommit(p) ==
    /\ pc[p] = "mp_commit"
    /\ users' = {IF u.id = op[p].user
                 THEN [u EXCEPT !.hashed_password = op[p].staged,
                                !.credential = [call |-> "ChangePassword",
                                                old |-> op[p].old, new |-> op[p].new]]
                 ELSE u : u \in users}
    /\ ModifyPasswordReturns(p, Ok)
    /\ UNCHANGED calls
    /\ UserUnchanged

NextUsers ==
    \/ \E p \in Procs, name \in UserNames, password \in Passwords, salt \in Salts :
           UserCreateUser(p, name, password, salt)
    \/ \E p \in Procs, name \in UserNames, password \in Passwords :
           UserValidatePassword(p, name, password)
    \/ \E p \in Procs, id \in UserIds, old \in Passwords, new \in Passwords :
           StartModifyPassword(p, id, old, new)
    \/ \E p \in Procs : ModifyPasswordGetUserForUpdate(p)
    \/ \E p \in Procs, salt \in Salts : ModifyPasswordChangeUserPassword(p, salt)
    \/ \E p \in Procs : ModifyPasswordCommit(p)

SpecUsers == Init /\ [][NextUsers]_vars

\* ------------------------------------------- the repository called directly
\* a value of service.PermissionLevel outside Viewer, Editor, Owner
UnknownLevel == "unknown"

serviceToRepoPermissionLevel(lvl) ==
    IF lvl \in AllPermissions
    THEN [ok |-> TRUE, level |-> lvl]
    ELSE [ok |-> FALSE, level |-> Null]

\* DocumentRepository.UpsertPermissionUser without the service layer above it:
\* the level is converted, then the unit of UpGetDocument, UpUpsert, UpCommit
RepositoryUpsertPermissionUser(p, u, d, lvl) ==
    /\ Accept(p)
    /\ LET call == [NoOp EXCEPT !.name = "repository.UpsertPermissionUser", !.user = u,
                                !.doc = d, !.level = lvl, !.start = now]
       IN  IF ~serviceToRepoPermissionLevel(lvl).ok
           THEN Reject(p, call, InvalidInput)
           ELSE /\ op' = [op EXCEPT ![p] = call]
                /\ Goto(p, "up_get")
    /\ UNCHANGED <<documents, permissions, guests, now, users, trav, usedIds, wr, dirty>>

NextRepository ==
    \/ Next
    \/ \E p \in Procs, u \in KnownPrincipals, d \in DocIds,
          lvl \in AllPermissions \cup {UnknownLevel} :
           RepositoryUpsertPermissionUser(p, u, d, lvl)

SpecRepository == Init /\ [][NextRepository]_vars

\* ------------------------------------------- a grant through the gRPC client
\* DocumentServiceClient.UpsertPermissionUser sends the target user, the
\* document, the level and, as ClientContext.PrincipalId, the calling user.
\* The server parses the user id, the document id and the level and calls the
\* service layer with them; caller keeps the principal of the request.
ClientUpsertPermissionUser(p, targetUserId, callingUserId, d, lvl) ==
    /\ Accept(p)
    /\ LET call == [NoOp EXCEPT !.name = "UpsertPermissionUser", !.user = targetUserId,
                                !.doc = d, !.level = lvl, !.start = now,
                                !.caller = callingUserId]
       IN  IF lvl = Owner
           THEN Reject(p, call, InvalidInput)
           ELSE /\ op' = [op EXCEPT ![p] = call]
                /\ Goto(p, "up_get")
    /\ UNCHANGED <<documents, permissions, guests, now, users, trav, usedIds, wr, dirty>>

NextGrant ==
    \/ Next
    \/ \E p \in Procs, targetUserId \in UserIds, callingUserId \in UserIds, d \in DocIds,
          lvl \in AllPermissions :
           ClientUpsertPermissionUser(p, targetUserId, callingUserId, d, lvl)

SpecGrant == Init /\ [][NextGrant]_vars

\* ------------------------------------------------- calls on a filled store
\* The store after user 1 has created document 1, user 2 has created
\* document 2 and user 1 has created a guest with viewer access on document 1;
\* then deletions and updates of the guest's permission.
FirstGuest == NumUsers + 1
InitStored ==
    /\ documents = {DocumentRow(d, 0) : d \in 1..2}
    /\ permissions = {PermissionRow(d, User, d, Owner, d, 0) : d \in 1..2}
                     \cup {PermissionRow(FirstGuest, Guest, 1, Viewer, 1, 0)}
    /\ guests = {GuestRow(FirstGuest, 1, 1)}
    /\ now = 0
    /\ usedIds = {1, 2, FirstGuest}
    /\ pc = [p \in Procs |-> "idle"]
    /\ op = [p \in Procs |-> NoOp]
    /\ wr = [p \in Procs |-> NoWrites]
    /\ dirty = [p \in Procs |-> NoSnapshot]
    /\ res = [p \in Procs |-> NoRes]
    /\ calls = 0
    /\ trav = NoTraversal
    /\ users = {}

NextStored ==
    \E p \in Procs :
        \/ \E d \in DocIds : StartDeleteDocument(p, d)
        \/ \E ids \in BatchLists : StartDeleteDocuments(p, ids)
        \/ HelperDeletePermissions(p)
        \/ HelperDeleteGuests(p)
        \/ HelperDeleteDocument(p)
        \/ DeleteCommit(p)
        \/ \E g \in GuestIds, lvl \in AllPermissions :
               StartUpdatePermissionGuest(p, g, lvl)
        \/ UgSelectGuest(p)
        \/ UgUpdatePermission(p)
        \/ Fail(p)
        \/ Respond(p)

SpecStored == InitStored /\ [][NextStored]_vars

\* The statement of deleteDocumentHelper that p is at waits for a row lock
\* that the open atomic unit of q holds.
WaitsFor(p, q) ==
    /\ pc[p] \in {"del_perms", "del_guests", "del_doc"}
    /\ LET d == CurrentDoc(p)
       IN  \/ /\ pc[p] = "del_perms"
              /\ \E r \in PermsOn(CurPerms(p), d) :
                     \/ PermKey(r) \in wr[q].delPerms
                     \/ PermKey(r) \in {PermKey(x) : x \in wr[q].insPerms}
           \/ /\ pc[p] = "del_guests"
              /\ \E g \in GuestsOn(CurGuests(p), d) : g.id \in wr[q].delGuests
           \/ /\ pc[p] = "del_doc"
              /\ (d \in wr[q].delDocs \/ d \in wr[q].keyShare)

\* Two units that wait for each other: the store's deadlock detection makes
\* the statement of one of them fail, which is the err # nil return of
\* deleteDocumentHelper.
DeadlockVictim(p) ==
    /\ \E q \in Procs \ {p} : WaitsFor(p, q) /\ WaitsFor(q, p)
    /\ Fail(p)

\* the statements and the commit of an open deletion
DeleteStep(p) ==
    \/ HelperDeletePermissions(p)
    \/ HelperDeleteGuests(p)
    \/ HelperDeleteDocument(p)
    \/ DeleteCommit(p)

\* SpecStoredFair: a statement that can run does run, and a deadlock is
\* broken; no call is forced to start, to fail otherwise or to be answered.
SpecStoredFair ==
    /\ InitStored
    /\ [][NextStored]_vars
    /\ \A p \in Procs : WF_vars(DeleteStep(p)) /\ WF_vars(DeadlockVictim(p))

\* ------------------------------------------- errors on the way to the client
\* SpecErrors: an error produced in a repository travels through the service
\* layer, the gRPC server and the gateway handler. An error value is its
\* Unwrap chain, outermost first; Plain is an error that is no domain error
\* (a driver error, bcrypt's error, service.ErrNilPointer).
DocumentService == "document_service"
UserService == "user_service"
Services == {DocumentService, UserService}
Plain == "error"
DomainKinds == {NotFound, InvalidInput, UniqueConflict, PasswordMismatch, RepoImpl}

\* the error types with an Unwrap method
Unwraps(svc, kind) ==
    IF svc = DocumentService
    THEN kind \in {NotFound, InvalidInput, UniqueConflict, RepoImpl}
    ELSE kind \in {InvalidInput, UniqueConflict, RepoImpl}

\* service.NotFound(msg, err), service.RepoImpl(msg, err), ...
Wrap(svc, kind, inner) == IF Unwraps(svc, kind) THEN <<kind>> \o inner ELSE <<kind>>

\* the errors the repositories return
RepositoryErrors(svc) ==
    IF svc = DocumentService
    THEN {Wrap(svc, NotFound, <<>>), Wrap(svc, NotFound, <<Plain>>),
          Wrap(svc, InvalidInput, <<>>), Wrap(svc, InvalidInput, <<Plain>>),
          Wrap(svc, UniqueConflict, <<Plain>>),
          Wrap(svc, RepoImpl, <<Plain>>),
          Wrap(svc, RepoImpl, Wrap(svc, RepoImpl, <<Plain>>)),
          <<Plain>>}
    ELSE {Wrap(svc, NotFound, <<>>),
          Wrap(svc, UniqueConflict, <<Plain>>),
          Wrap(svc, RepoImpl, <<Plain>>),
          Wrap(svc, PasswordMismatch, <<Plain>>)}

\* errors.As(err, &target): the first error of the chain with the target's type
errorsAs(err, kind) == \E i \in 1..Len(err) : err[i] = kind

\* the document service wraps what is no DomainError (a test of the
\* outermost error only); the user service returns the error as it is
ServiceError(svc, err) ==
    IF svc = DocumentService /\ err[1] \notin DomainKinds
    THEN Wrap(svc, RepoImpl, err)
    ELSE err

\* google.golang.org/grpc/codes
CodeNotFound == "NOT_FOUND"
CodeAlreadyExists == "ALREADY_EXISTS"
CodeInvalidArgument == "INVALID_ARGUMENT"
CodePermissionDenied == "PERMISSION_DENIED"
CodeInternal == "INTERNAL"

serviceToGRPCError(svc, err) ==
    IF errorsAs(err, NotFound) THEN CodeNotFound
    ELSE IF errorsAs(err, UniqueConflict) THEN CodeAlreadyExists
    ELSE IF errorsAs(err, InvalidInput) THEN CodeInvalidArgument
    ELSE IF svc = UserService /\ errorsAs(err, PasswordMismatch) THEN CodePermissionDenied
    ELSE CodeInternal

\* a gateway that knows no status for ALREADY_EXISTS
GrpcToHttpStatusNoConflict(code) ==
    IF code = CodeInvalidArgument THEN 400
    ELSE IF code = CodeNotFound THEN 404
    ELSE IF code = CodePermissionDenied THEN 403
    ELSE IF code = "UNAUTHENTICATED" THEN 401
    ELSE IF code = "RESOURCE_EXHAUSTED" THEN 429
    ELSE IF code = "UNIMPLEMENTED" THEN 501
    ELSE IF code = "UNAVAILABLE" THEN 503
    ELSE IF code = "DEADLINE_EXCEEDED" THEN 504
    ELSE 500

GrpcToHttpStatus(code) ==
    IF code = CodeInvalidArgument THEN 400
    ELSE IF code = CodeNotFound THEN 404
    ELSE IF code = CodeAlreadyExists THEN 409
    ELSE IF code = CodePermissionDenied THEN 403
    ELSE IF code = "UNAUTHENTICATED" THEN 401
    ELSE IF code = "RESOURCE_EXHAUSTED" THEN 429
    ELSE IF code = "UNIMPLEMENTED" THEN 501
    ELSE IF code = "UNAVAILABLE" THEN 503
    ELSE IF code = "DEADLINE_EXCEEDED" THEN 504
    ELSE 500

ErrorFrame == <<documents, permissions, guests, now, users, trav, usedIds, wr, dirty>>

\* a repository call of the request fails
RepositoryFails(p, svc, err) ==
    /\ Accept(p)
    /\ op' = [op EXCEPT ![p] = [NoOp EXCEPT !.name = svc]]
    /\ res' = [res EXCEPT ![p] = [status |-> "error", id |-> NoId,
                                  produced |-> err, err |-> err]]
    /\ pc' = [pc EXCEPT ![p] = "service"]
    /\ UNCHANGED ErrorFrame

\* the method of the service layer returns
ServiceReturns(p) ==
    /\ pc[p] = "service"
    /\ res' = [res EXCEPT ![p].err = ServiceError(op[p].name, @)]
    /\ pc' = [pc EXCEPT ![p] = "server"]
    /\ UNCHANGED <<op, calls>>
    /\ UNCHANGED ErrorFrame

\* the gRPC handler returns serviceToGRPCError(err); the client hands the
\* status error to the gateway handler
ServerReturns(p) ==
    /\ pc[p] = "server"
    /\ res' = [res EXCEPT ![p] = [status |-> "error", id |-> NoId,
                                  produced |-> res[p].produced,
                                  code |-> serviceToGRPCError(op[p].name, res[p].err)]]
    /\ pc' = [pc EXCEPT ![p] = "gateway"]
    /\ UNCHANGED <<op, calls>>
    /\ UNCHANGED ErrorFrame

\* SendError(w, GrpcToHttpStatus(err), err.Error())
GatewaySendsError(p) ==
    /\ pc[p] = "gateway"
    /\ res' = [res EXCEPT ![p] = [status |-> "error", id |-> NoId,
                                  produced |-> res[p].produced,
                                  code |-> res[p].code,
                                  http |-> GrpcToHttpStatus(res[p].code)]]
    /\ pc' = [pc EXCEPT ![p] = "returned"]
    /\ UNCHANGED <<op, calls>>
    /\ UNCHANGED ErrorFrame

NextErrors ==
    \E p \in Procs :
        \/ \E svc \in Services : \E err \in RepositoryErrors(svc) : RepositoryFails(p, svc, err)
        \/ ServiceReturns(p)
        \/ ServerReturns(p)
        \/ GatewaySendsError(p)
        \/ Respond(p)

SpecErrors == Init /\ [][NextErrors]_vars

\* ------------------------------------------------- the gateway's handlers
\* SpecGateway: one HTTP request to a document endpoint of the gateway. The
\* handler reads the JWT claims from the request context, runs its checks
\* and either answers or calls the document service; handlers share no
\* state, so one request is followed at a time.
NoClaims == [nil |-> TRUE]
UserNames2 == {"", "ada"}
Subjects == {"3f2a", "not-a-uuid"}
Uuids == {"3f2a", "77b0"}
CustomClaims == [nil : {FALSE}, user_name : UserNames2, subject : Subjects]

\* uuid.Parse(c.Subject)
ParsePrincipalId(c) == [ok |-> c.subject \in Uuids, id |-> c.subject]

\* a token is a user token when it carries a user name
GetTokenType(c) == IF c.user_name # "" THEN User ELSE Guest

\* a request body: whether json.Decode accepts it, and its fields
Bodies ==
    [decodes : BOOLEAN, permission_level : {Viewer, Owner, UnknownLevel},
     shares_user : BOOLEAN, principal_type : {User, Guest}]
Queries == {"ok", "bad"}

netToProtoPermissionLevel(lvl) == [ok |-> lvl \in AllPermissions, level |-> lvl]

Endpoints ==
    {"GET /document", "POST /document", "DELETE /document",
     "GET /document/{id}", "PUT /document/{id}", "DELETE /document/{id}",
     "GET /document/{id}/permission", "POST /document/{id}/permission",
     "GET /document/{id}/permission/principal/{principal_id}",
     "PUT /document/{id}/permission/principal/{principal_id}",
     "DELETE /document/{id}/permission/principal/{principal_id}"}

Requests ==
    [endpoint : Endpoints, claims : {NoClaims} \cup CustomClaims,
     body : Bodies, query : Queries, principal : Uuids]

\* what a handler has done when it returns or calls the document service:
\* the status it sent (0: none yet), the RPC it issues, a nil dereference
Rejected(status) == [sent |-> status, rpc |-> "none", panic |-> FALSE]
Calls(rpc) == [sent |-> 0, rpc |-> rpc, panic |-> FALSE]

\* GET /document without a check of the token type replaced by one
GatewayGetDocumentUsersOnly(req) ==
    IF req.claims.nil THEN Rejected(500)
    ELSE IF ~ParsePrincipalId(req.claims).ok THEN Rejected(400)
    ELSE IF GetTokenType(req.claims) # User THEN Rejected(403)
    ELSE IF req.query = "bad" THEN Rejected(400)
    ELSE Calls("ListDocumentsByPrincipal")

GatewayGetDocument(req) ==
    IF req.claims.nil THEN Rejected(500)
    ELSE IF ~ParsePrincipalId(req.claims).ok THEN Rejected(400)
    ELSE IF req.query = "bad" THEN Rejected(400)
    ELSE Calls("ListDocumentsByPrincipal")

GatewayPostDocument(req) ==
    IF req.claims.nil THEN Rejected(500)
    ELSE IF GetTokenType(req.claims) # User THEN Rejected(403)
    ELSE IF ~ParsePrincipalId(req.claims).ok THEN Rejected(400)
    ELSE IF ~req.body.decodes THEN Rejected(400)
    ELSE Calls("CreateDocument")

\* DELETE /document decodes the body before it looks at the claims
GatewayDeleteDocument(req) ==
    IF ~req.body.decodes THEN Rejected(400)
    ELSE IF req.claims.nil THEN Rejected(500)
    ELSE IF ~ParsePrincipalId(req.claims).ok THEN Rejected(400)
    ELSE IF GetTokenType(req.claims) # User THEN Rejected(403)
    ELSE Calls("DeleteDocuments")

GatewayGetDocumentDocumentId(req) ==
    IF req.claims.nil THEN Rejected(500)
    ELSE IF ~ParsePrincipalId(req.claims).ok THEN Rejected(400)
    ELSE Calls("GetDocument")

\* PUT /document/{id} does not return after its first two SendError calls:
\* without claims it dereferences nil, with an unparsable subject it goes on
\* with the zero id
GatewayPutDocumentDocumentId(req) ==
    IF req.claims.nil THEN [sent |-> 500, rpc |-> "none", panic |-> TRUE]
    ELSE LET sent == IF ParsePrincipalId(req.claims).ok THEN 0 ELSE 400
         IN  IF ~req.body.decodes
             THEN Rejected(400)
             ELSE [sent |-> sent, rpc |-> "UpdateDocument", panic |-> FALSE]

GatewayDeleteDocumentDocumentId(req) ==
    IF req.claims.nil THEN Rejected(500)
    ELSE IF ~ParsePrincipalId(req.claims).ok THEN Rejected(400)
    ELSE IF GetTokenType(req.claims) # User THEN Rejected(403)
    ELSE Calls("DeleteDocument")

GatewayGetDocumentDocumentIdPermission(req) ==
    IF req.claims.nil THEN Rejected(500)
    ELSE IF GetTokenType(req.claims) # User THEN Rejected(403)
    ELSE IF ~ParsePrincipalId(req.claims).ok THEN Rejected(400)
    ELSE IF req.query = "bad" THEN Rejected(400)
    ELSE Calls("ListPermissionsOnDocument")

GatewayPostDocumentDocumentIdPermission(req) ==
    IF req.claims.nil THEN Rejected(500)
    ELSE IF ~ParsePrincipalId(req.claims).ok THEN Rejected(400)
    ELSE IF GetTokenType(req.claims) # User THEN Rejected(403)
    ELSE IF ~req.body.decodes THEN Rejected(400)
    ELSE IF req.body.permission_level = Owner THEN Rejected(400)
    ELSE IF ~netToProtoPermissionLevel(req.body.permission_level).ok THEN Rejected(400)
    ELSE IF req.body.shares_user THEN Calls("UpsertPermissionUser")
    ELSE Calls("CreateGuest")

GatewayDeleteDocumentDocumentIdPermissionPrincipalPrincipalId(req) ==
    IF req.claims.nil THEN Rejected(500)
    ELSE IF ~ParsePrincipalId(req.claims).ok THEN Rejected(400)
    ELSE IF GetTokenType(req.claims) # User THEN Rejected(403)
    ELSE Calls("DeletePermissionsPrincipal")

GatewayGetDocumentDocumentIdPermissionPrincipalPrincipalId(req) ==
    IF req.claims.nil THEN Rejected(500)
    ELSE IF ~ParsePrincipalId(req.claims).ok THEN Rejected(403)
    ELSE IF /\ GetTokenType(req.claims) = Guest
            /\ req.principal # ParsePrincipalId(req.claims).id THEN Rejected(403)
    ELSE Calls("GetPermissionsOfPrincipalOnDocument")

GatewayPutDocumentDocumentIdPermissionPrincipalPrincipalId(req) ==
    IF req.claims.nil THEN Rejected(500)
    ELSE IF ~ParsePrincipalId(req.claims).ok THEN Rejected(400)
    ELSE IF GetTokenType(req.claims) = Guest THEN Rejected(403)
    ELSE IF ~req.body.decodes THEN Rejected(400)
    ELSE IF ~netToProtoPermissionLevel(req.body.permission_level).ok THEN Rejected(400)
    ELSE IF req.body.principal_type = User THEN Calls("UpsertPermissionUser")
    ELSE Calls("UpdatePermissionGuest")

\* the generated router: one handler per route
Handle(req) ==
    CASE req.endpoint = "GET /document" -> GatewayGetDocument(req)
      [] req.endpoint = "POST /document" -> GatewayPostDocument(req)
      [] req.endpoint = "DELETE /document" -> GatewayDeleteDocument(req)
      [] req.endpoint = "GET /document/{id}" -> GatewayGetDocumentDocumentId(req)
      [] req.endpoint = "PUT /document/{id}" -> GatewayPutDocumentDocumentId(req)
      [] req.endpoint = "DELETE /document/{id}" -> GatewayDeleteDocumentDocumentId(req)
      [] req.endpoint = "GET /document/{id}/permission" ->
             GatewayGetDocumentDocumentIdPermission(req)
      [] req.endpoint = "POST /document/{id}/permission" ->
             GatewayPostDocumentDocumentIdPermission(req)
      [] req.endpoint = "GET /document/{id}/permission/principal/{principal_id}" ->
             GatewayGetDocumentDocumentIdPermissionPrincipalPrincipalId(req)
      [] req.endpoint = "PUT /document/{id}/permission/principal/{principal_id}" ->
             GatewayPutDocumentDocumentIdPermissionPrincipalPrincipalId(req)
      [] req.endpoint = "DELETE /document/{id}/permission/principal/{principal_id}" ->
             GatewayDeleteDocumentDocumentIdPermissionPrincipalPrincipalId(req)

\* the status of a request the document service served
SuccessStatus(endpoint) ==
    IF endpoint \in {"DELETE /document", "DELETE /document/{id}", "PUT /document/{id}",
                     "PUT /document/{id}/permission/principal/{principal_id}",
                     "DELETE /document/{id}/permission/principal/{principal_id}"}
    THEN 204
    ELSE 200

RpcCodes == {Ok, CodeNotFound, CodeInvalidArgument, CodeInternal}

\* the handler runs up to its answer or to its call of the document service
GatewayReceives(p, req) ==
    /\ Accept(p)
    /\ \A q \in Procs : pc[q] = "idle"
    /\ LET r == Handle(req)
       IN  /\ res' = [res EXCEPT ![p] = [status |-> "gateway", id |-> NoId, request |-> req,
                                         sent |-> r.sent, rpc |-> r.rpc, panic |-> r.panic]]
           /\ pc' = [pc EXCEPT ![p] = IF r.rpc = "none" THEN "returned" ELSE "rpc"]
    /\ op' = [op EXCEPT ![p] = [NoOp EXCEPT !.name = req.endpoint]]
    /\ UNCHANGED ErrorFrame

\* the call returns; the first status written to the response stays
RpcReturns(p, code) ==
    /\ pc[p] = "rpc"
    /\ res' = [res EXCEPT ![p].sent =
                   IF @ # 0 THEN @
                   ELSE IF code = Ok THEN SuccessStatus(res[p].request.endpoint)
                   ELSE GrpcToHttpStatus(code)]
    /\ pc' = [pc EXCEPT ![p] = "returned"]
    /\ UNCHANGED <<op, calls>>
    /\ UNCHANGED ErrorFrame

NextGateway ==
    \E p \in Procs :
        \/ (\A q \in Procs : pc[q] = "idle") /\ \E req \in Requests : GatewayReceives(p, req)
        \/ \E code \in RpcCodes : RpcReturns(p, code)
        \/ Respond(p)

SpecGateway == Init /\ [][NextGateway]_vars

\* ------------------------------------------- the cursor at the HTTP boundary
\* A cursor leaves the document service as a pb.Cursor, crosses the gateway as
\* the protobuf wire bytes of that message in URL-safe base64, and comes back
\* the same way. Times are PostgreSQL timestamps, whole microseconds since the
\* epoch; a uuid is written as the digits of the identifier it stands for.
\* Bytes, and the characters of a blob, are their codes. The times are chosen
\* for the shapes of their encodings: the epoch (an empty Timestamp), 32 and 49
\* microseconds (blobs with the characters - and _), whole and broken seconds.
CursorTimes == {0, 32, 49, 1000000, 1500000, 3000127}
CursorIds == {1, 9, MaxDocumentID}
ServiceCursors ==
    {Cursor(sf, t, id) : sf \in SortFields \cup {Unspecified}, t \in CursorTimes,
                         id \in CursorIds}

timestamppbNewWholeSeconds(t) == [seconds |-> t \div 1000000, nanos |-> 0]
\* timestamppb.New keeps whole seconds and the nanoseconds within the second;
\* Timestamp.AsTime puts them together again
timestamppbNew(t) == [seconds |-> t \div 1000000, nanos |-> (t % 1000000) * 1000]
AsTime(ts) == ts.seconds * 1000000 + ts.nanos \div 1000

\* uuid.UUID.String and uuid.Parse
RECURSIVE String(_)
String(id) == IF id < 10 THEN <<48 + id>> ELSE String(id \div 10) \o <<48 + (id % 10)>>
RECURSIVE uuidParse(_)
uuidParse(s) ==
    IF Len(s) = 0 THEN 0 ELSE 10 * uuidParse(SubSeq(s, 1, Len(s) - 1)) + (s[Len(s)] - 48)

\* serviceToPbSortField and the numbers of enum Cursor.SortField
serviceToPbCursor(cursor) ==
    IF cursor.sort_field \notin SortFields
    THEN [ok |-> FALSE]
    ELSE [ok |-> TRUE,
          cursor |-> PbCursor(cursor.sort_field, cursor.last_seen_time, cursor.last_seen_id)]
SortFieldNumber(sf) == CASE sf = CreatedAt -> 1 [] sf = LastModifiedAt -> 2 [] OTHER -> 0
SortFieldOfNumber(n) == CASE n = 1 -> CreatedAt [] n = 2 -> LastModifiedAt [] OTHER -> Unspecified

\* The protobuf wire format: a field is its tag (number * 8 + wire type), then
\* a base-128 varint (wire type 0) or a length and that many bytes (wire type
\* 2). A proto3 scalar that is zero is left out; a message or an optional
\* string that is set is written even when it is empty.
RECURSIVE Varint(_)
Varint(n) == IF n < 128 THEN <<n>> ELSE <<128 + (n % 128)>> \o Varint(n \div 128)
Scalar(field, n) == IF n = 0 THEN <<>> ELSE <<field * 8>> \o Varint(n)
Delimited(field, payload) == <<field * 8 + 2>> \o Varint(Len(payload)) \o payload

\* proto.Marshal of a pb.Cursor
Marshal(cursor) ==
    Scalar(1, SortFieldNumber(cursor.sort_field))
    \o (IF cursor.last_seen_time = NoTime THEN <<>>
        ELSE LET ts == timestamppbNew(cursor.last_seen_time)
             IN  Delimited(2, Scalar(1, ts.seconds) \o Scalar(2, ts.nanos)))
    \o (IF cursor.last_seen_document_id = NoId THEN <<>>
        ELSE Delimited(3, String(cursor.last_seen_document_id)))

VarintEnds(wire, i) == \E j \in i..Len(wire) : wire[j] < 128
RECURSIVE ReadVarint(_, _)
ReadVarint(wire, i) ==
    IF wire[i] < 128 THEN [value |-> wire[i], next |-> i + 1]
    ELSE LET r == ReadVarint(wire, i + 1)
         IN  [value |-> (wire[i] - 128) + 128 * r.value, next |-> r.next]

\* the fields of a message in wire order, or the failure of a truncated one
RECURSIVE Fields(_, _)
Fields(wire, i) ==
    IF i > Len(wire) THEN [ok |-> TRUE, fields |-> <<>>]
    ELSE IF wire[i] % 8 \notin {0, 2} \/ ~VarintEnds(wire, i + 1) THEN [ok |-> FALSE]
    ELSE LET v == ReadVarint(wire, i + 1)
             scalar == wire[i] % 8 = 0
             last == IF scalar THEN v.next - 1 ELSE v.next + v.value - 1
         IN  IF last > Len(wire) THEN [ok |-> FALSE]
             ELSE LET rest == Fields(wire, last + 1)
                      field == [field |-> wire[i] \div 8,
                                value |-> IF scalar THEN v.value ELSE 0,
                                payload |-> IF scalar THEN <<>>
                                            ELSE SubSeq(wire, v.next, last)]
                  IN  IF rest.ok THEN [ok |-> TRUE, fields |-> <<field>> \o rest.fields]
                      ELSE rest
Has(fields, k) == \E j \in DOMAIN fields : fields[j].field = k
Get(fields, k) ==
    fields[CHOOSE j \in DOMAIN fields :
               /\ fields[j].field = k
               /\ \A l \in DOMAIN fields : fields[l].field = k => l <= j]

\* proto.Unmarshal into a pb.Cursor: a field that is absent keeps its zero value
Unmarshal(wire) ==
    LET m == Fields(wire, 1)
    IN  IF ~m.ok THEN [ok |-> FALSE]
        ELSE LET ts == IF Has(m.fields, 2) THEN Fields(Get(m.fields, 2).payload, 1)
                       ELSE [ok |-> TRUE, fields |-> <<>>]
             IN  IF ~ts.ok THEN [ok |-> FALSE]
                 ELSE [ok |-> TRUE,
                       cursor |-> PbCursor(
                           IF Has(m.fields, 1)
                           THEN SortFieldOfNumber(Get(m.fields, 1).value)
                           ELSE Unspecified,
                           IF Has(m.fields, 2)
                           THEN AsTime([seconds |-> IF Has(ts.fields, 1)
                                                    THEN Get(ts.fields, 1).value ELSE 0,
                                        nanos |-> IF Has(ts.fields, 2)
                                                  THEN Get(ts.fields, 2).value ELSE 0])
                           ELSE NoTime,
                           IF Has(m.fields, 3) THEN uuidParse(Get(m.fields, 3).payload)
                           ELSE NoId)]

\* base64.URLEncoding: A-Z a-z 0-9 - _ for the 64 digits, = to fill the last
\* group of four
PadChar == 61
URLEncodingChar(d) ==
    IF d < 26 THEN 65 + d
    ELSE IF d < 52 THEN 97 + (d - 26)
    ELSE IF d < 62 THEN 48 + (d - 52)
    ELSE IF d = 62 THEN 45 ELSE 95
URLEncodingChars == {URLEncodingChar(d) : d \in 0..63}
URLEncodingDigit(c) == CHOOSE d \in 0..63 : URLEncodingChar(d) = c

RECURSIVE EncodeToString(_)
EncodeToString(src) ==
    LET n == Len(src)
    IN  IF n = 0 THEN <<>>
        ELSE IF n = 1
        THEN <<URLEncodingChar(src[1] \div 4), URLEncodingChar((src[1] % 4) * 16),
               PadChar, PadChar>>
        ELSE IF n = 2
        THEN <<URLEncodingChar(src[1] \div 4),
               URLEncodingChar((src[1] % 4) * 16 + src[2] \div 16),
               URLEncodingChar((src[2] % 16) * 4), PadChar>>
        ELSE <<URLEncodingChar(src[1] \div 4),
               URLEncodingChar((src[1] % 4) * 16 + src[2] \div 16),
               URLEncodingChar((src[2] % 16) * 4 + src[3] \div 64),
               URLEncodingChar(src[3] % 64)>>
             \o EncodeToString(SubSeq(src, 4, n))

RECURSIVE DecodeString(_)
DecodeString(s) ==
    IF Len(s) = 0 THEN [ok |-> TRUE, bytes |-> <<>>]
    ELSE IF Len(s) < 4 \/ s[1] \notin URLEncodingChars \/ s[2] \notin URLEncodingChars
    THEN [ok |-> FALSE]
    ELSE LET d1 == URLEncodingDigit(s[1])
             d2 == URLEncodingDigit(s[2])
         IN  IF s[3] = PadChar
             THEN IF s[4] = PadChar /\ Len(s) = 4
                  THEN [ok |-> TRUE, bytes |-> <<d1 * 4 + d2 \div 16>>]
                  ELSE [ok |-> FALSE]
             ELSE IF s[3] \notin URLEncodingChars THEN [ok |-> FALSE]
             ELSE IF s[4] = PadChar
             THEN IF Len(s) = 4
                  THEN [ok |-> TRUE,
                        bytes |-> <<d1 * 4 + d2 \div 16,
                                    (d2 % 16) * 16 + URLEncodingDigit(s[3]) \div 4>>]
                  ELSE [ok |-> FALSE]
             ELSE IF s[4] \notin URLEncodingChars THEN [ok |-> FALSE]
             ELSE LET d3 == URLEncodingDigit(s[3])
                      d4 == URLEncodingDigit(s[4])
                      rest == DecodeString(SubSeq(s, 5, Len(s)))
                  IN  IF rest.ok
                      THEN [ok |-> TRUE,
                            bytes |-> <<d1 * 4 + d2 \div 16, (d2 % 16) * 16 + d3 \div 4,
                                        (d3 % 4) * 64 + d4>> \o rest.bytes]
                      ELSE rest

\* the gateway's two conversions
protoToNetCursor(cursor) == EncodeToString(Marshal(cursor))
netToProtoCursor(cursor) ==
    LET wire == DecodeString(cursor)
    IN  IF wire.ok THEN Unmarshal(wire.bytes) ELSE [ok |-> FALSE]

\* what a client does with the blob of a page: send it back as it came, or
\* without its last group of four characters
Blobs(blob) == {blob, SubSeq(blob, 1, Len(blob) - 4)}

\* a list handler of the document service answers with the cursor of its page
ServerAnswersCursor(p, cursor) ==
    /\ Accept(p)
    /\ LET pbRespCursor == serviceToPbCursor(cursor)
       IN  /\ res' = [res EXCEPT ![p] =
                          IF pbRespCursor.ok
                          THEN [status |-> Ok, id |-> NoId, cursor |-> cursor,
                                reply |-> pbRespCursor.cursor]
                          ELSE [status |-> RepoImpl, id |-> NoId, cursor |-> cursor]]
           /\ pc' = [pc EXCEPT ![p] = IF pbRespCursor.ok THEN "cursor_reply" ELSE "returned"]
    /\ op' = [op EXCEPT ![p] = [NoOp EXCEPT !.name = "ListDocuments"]]
    /\ UNCHANGED ErrorFrame

\* the gateway writes the blob into the page it answers with
GatewayAnswersCursor(p) ==
    /\ pc[p] = "cursor_reply"
    /\ res' = [res EXCEPT ![p] =
                   [status |-> Ok, id |-> NoId, cursor |-> res[p].cursor,
                    blob |-> protoToNetCursor(res[p].reply)]]
    /\ pc' = [pc EXCEPT ![p] = "cursor_blob"]
    /\ UNCHANGED <<op, calls>>
    /\ UNCHANGED ErrorFrame

\* the client asks for the next page; the gateway decodes the cursor parameter
GatewayReceivesCursor(p, blob) ==
    /\ pc[p] = "cursor_blob"
    /\ blob \in Blobs(res[p].blob)
    /\ LET cursor == netToProtoCursor(blob)
       IN  /\ res' = [res EXCEPT ![p] =
                          IF cursor.ok
                          THEN [status |-> Ok, id |-> NoId, cursor |-> res[p].cursor,
                                blob |-> res[p].blob, param |-> blob,
                                request |-> cursor.cursor]
                          ELSE [status |-> Ok, id |-> NoId, cursor |-> res[p].cursor,
                                blob |-> res[p].blob, param |-> blob, http |-> 400]]
           /\ pc' = [pc EXCEPT ![p] = IF cursor.ok THEN "cursor_request" ELSE "returned"]
    /\ UNCHANGED <<op, calls>>
    /\ UNCHANGED ErrorFrame

\* the list handler of the document service parses the cursor of the request
ServerParsesCursor(p) ==
    /\ pc[p] = "cursor_request"
    /\ res' = [res EXCEPT ![p] =
                   [status |-> Ok, id |-> NoId, cursor |-> res[p].cursor,
                    blob |-> res[p].blob, param |-> res[p].param,
                    parsed |-> parseServiceCursor(res[p].request)]]
    /\ pc' = [pc EXCEPT ![p] = "returned"]
    /\ UNCHANGED <<op, calls>>
    /\ UNCHANGED ErrorFrame

NextCursor ==
    \E p \in Procs :
        \/ (\A q \in Procs : pc[q] = "idle")
           /\ \E cursor \in ServiceCursors : ServerAnswersCursor(p, cursor)
        \/ GatewayAnswersCursor(p)
        \/ pc[p] = "cursor_blob"
           /\ \E blob \in Blobs(res[p].blob) : GatewayReceivesCursor(p, blob)
        \/ ServerParsesCursor(p)
        \/ Respond(p)

SpecCursor == Init /\ [][NextCursor]_vars

\* ------------------------------------------------------ login at the gateway
\* The user service behind its service layer and its gRPC server, and the
\* gateway's AuthMiddleware in front of PostAuthLogin and of the other
\* handlers. A client keeps the token of its last login.
MinUsernameLength == 3
MinPasswordLength == 8
TokenLifetime == 1
MaxLoginTime == 2
LoginNames == {"ada", "al"}
LoginPasswords == {"oldPass!1", "short", ""}
LoginSalts == {1}

\* UserService.CreateUser: the two length checks, then the repository
ServiceCreateUser(p, name, password, salt) ==
    IF Len(name) < MinUsernameLength \/ Len(password) < MinPasswordLength
    THEN /\ pc[p] = "idle"
         /\ calls < MaxUserCalls
         /\ calls' = calls + 1
         /\ res' = [res EXCEPT ![p] = [call |-> "CreateUser", status |-> InvalidInput,
                                       id |-> NoId]]
         /\ UNCHANGED <<pc, op, users>>
         /\ UserUnchanged
    ELSE UserCreateUser(p, name, password, salt)

\* UserServiceServerImpl.ChangePassword refuses an empty password;
\* UserService.ChangePassword hands the passwords to the repository
ServerChangePassword(p, id, old, new) ==
    IF old = "" \/ new = ""
    THEN /\ pc[p] = "idle"
         /\ calls < MaxUserCalls
         /\ calls' = calls + 1
         /\ res' = [res EXCEPT ![p] = [call |-> "ChangePassword", status |-> InvalidInput,
                                       id |-> id]]
         /\ UNCHANGED <<pc, op, users>>
         /\ UserUnchanged
    ELSE StartModifyPassword(p, id, old, new)

\* DeactivateUser: UPDATE users SET is_active = FALSE WHERE id = $1
\* RETURNING id; the update waits for a row lock
DeactivateUser(p, id) ==
    /\ pc[p] = "idle"
    /\ calls < MaxUserCalls
    /\ ~RowLocked(p, id)
    /\ calls' = calls + 1
    /\ users' = {IF u.id = id THEN [u EXCEPT !.is_active = FALSE] ELSE u : u \in users}
    /\ res' = [res EXCEPT ![p] =
                   [call |-> "DeactivateUser",
                    status |-> IF UserById(id) = {} THEN NotFound ELSE Ok, id |-> id]]
    /\ UNCHANGED <<pc, op>>
    /\ UserUnchanged

\* UserRepository.ValidatePassword: the row GetHashedPassword finds by user
\* name, and the comparison; row is the row that was read
NoRow == [id |-> NoId]
ValidatePassword(userName, password, fails) ==
    IF fails THEN [err |-> <<RepoImpl, Plain>>, id |-> NoId, valid |-> FALSE, row |-> NoRow]
    ELSE IF UserByName(userName) = {}
    THEN [err |-> <<NotFound>>, id |-> NoId, valid |-> FALSE, row |-> NoRow]
    ELSE LET row == CHOOSE u \in UserByName(userName) : TRUE
         IN  IF CompareHashAndPassword(row.hashed_password, password)
             THEN [err |-> <<>>, id |-> row.id, valid |-> TRUE, row |-> row]
             ELSE [err |-> <<>>, id |-> NoId, valid |-> FALSE, row |-> row]

\* the ValidatePassword RPC as the gateway's client sees it
ClientValidatePassword(userName, password, fails) ==
    LET Mapped(r) ==
            [r EXCEPT !.err = IF r.err = <<>> THEN Ok
                              ELSE serviceToGRPCError(UserService, r.err)]
    IN  Mapped(ValidatePassword(userName, password, fails))

\* a signed token: the method and the key of its signature, and its claims
HS256 == "HS256"
ES256 == "ES256"
JWTSecretKey == "secret"
NoToken == [alg |-> "none", key |-> "", userName |-> "", subject |-> NoId, exp |-> 0]
SignedString(alg, key, userName, subject, exp) ==
    [alg |-> alg, key |-> key, userName |-> userName, subject |-> subject, exp |-> exp]

\* a JSON body of POST /auth/login, or a body that does not decode
NoBody == [decodes |-> FALSE, user_name |-> "", password |-> ""]
LoginBodies ==
    {NoBody} \cup [decodes : {TRUE}, user_name : LoginNames, password : LoginPasswords \ {""}]

\* a handler that goes on after the 401
PostAuthLoginNoReturn(body, fails) ==
    LET Answer(r) ==
            IF r.err = CodeNotFound THEN [status |-> 404, token |-> NoToken, row |-> r.row]
            ELSE IF r.err # Ok
            THEN [status |-> GrpcToHttpStatus(r.err), token |-> NoToken, row |-> r.row]
            ELSE [status |-> IF r.valid THEN 200 ELSE 401,
                  token |-> SignedString(HS256, JWTSecretKey, body.user_name, r.id,
                                         now + TokenLifetime),
                  row |-> r.row]
    IN  IF ~body.decodes THEN [status |-> 400, token |-> NoToken, row |-> NoRow]
        ELSE Answer(ClientValidatePassword(body.user_name, body.password, fails))

\* Service.PostAuthLogin: the status it sends and the token in its answer
PostAuthLogin(body, fails) ==
    LET Answer(r) ==
            IF r.err = CodeNotFound THEN [status |-> 404, token |-> NoToken, row |-> r.row]
            ELSE IF r.err # Ok
            THEN [status |-> GrpcToHttpStatus(r.err), token |-> NoToken, row |-> r.row]
            ELSE IF ~r.valid THEN [status |-> 401, token |-> NoToken, row |-> r.row]
            ELSE [status |-> 200,
                  token |-> SignedString(HS256, JWTSecretKey, body.user_name, r.id,
                                         now + TokenLifetime),
                  row |-> r.row]
    IN  IF ~body.decodes THEN [status |-> 400, token |-> NoToken, row |-> NoRow]
        ELSE Answer(ClientValidatePassword(body.user_name, body.password, fails))

\* jwt.ParseWithClaims with WithValidMethods(ES256) and a key function that
\* returns the secret as bytes: the method must be among the valid ones, the
\* signature must verify under the key (ES256 verifies with an ECDSA public
\* key only), the token must not be expired
ValidMethods == {ES256}
Verifies(token, key) == token.alg = HS256 /\ token.key = key
ParseWithClaims(token) ==
    IF token.alg \notin ValidMethods \/ ~Verifies(token, JWTSecretKey) \/ now > token.exp
    THEN [ok |-> FALSE, claims |-> NoClaims]
    ELSE [ok |-> TRUE,
          claims |-> [nil |-> FALSE, userName |-> token.userName, subject |-> token.subject]]

\* the Authentication header of a request: absent, a value without the
\* Bearer prefix, or Bearer and a token
Header(kind, token) == [kind |-> kind, token |-> token]
NoHeader == Header("none", NoToken)

\* what the handler behind the middleware does with a request; a body is
\* read once
Serve(path, body, fails, claims) ==
    LET Handled(r) ==
            [status |-> r.status, token |-> r.token, row |-> r.row, claims |-> claims]
    IN  IF path = "/auth/login"
        THEN Handled(PostAuthLogin(body, fails))
        ELSE [status |-> 200, token |-> NoToken, row |-> NoRow, claims |-> claims]

\* AuthMiddleware: the handler's invocations in order, and the statuses
\* written to the response in order
AuthMiddleware(path, header, body, fails) ==
    LET Answered(next) == [served |-> <<next>>, written |-> <<next.status>>]
        Checked(consumed, parsed) ==
            IF header.kind = "none" THEN [served |-> <<>>, written |-> <<401>>]
            ELSE IF header.kind = "raw" THEN [served |-> <<>>, written |-> <<401>>]
            ELSE IF ~parsed.ok THEN [served |-> <<>>, written |-> <<403>>]
            ELSE Answered(Serve(path, consumed, fails, parsed.claims))
        Joined(login, checked) ==
            [served |-> login \o checked.served,
             written |-> (IF login = <<>> THEN <<>> ELSE <<login[1].status>>)
                         \o checked.written]
        Through(login) ==
            Joined(login,
                   Checked(IF login = <<>> THEN body ELSE [body EXCEPT !.decodes = FALSE],
                           ParseWithClaims(header.token)))
    IN  Through(IF path = "/auth/login" THEN <<Serve(path, body, fails, NoClaims)>>
                ELSE <<>>)

\* the tokens a client can present: one a login has answered with, or one
\* signed with a key of the client's own
Held == {res[q].token : q \in {q \in Procs : "token" \in DOMAIN res[q]}} \ {NoToken}
Forged == {SignedString(ES256, "other", "ada", 1, MaxLoginTime + TokenLifetime)}
Headers ==
    {NoHeader} \cup {Header("raw", token) : token \in Forged}
               \cup {Header("bearer", token) : token \in Held \cup Forged}

\* a request arrives at the gateway and is answered; the client receives the
\* first status written
GatewayServes(p, path, header, body, fails) ==
    /\ pc[p] = "idle"
    /\ calls < MaxUserCalls
    /\ calls' = calls + 1
    /\ LET Answer(r) ==
               [call |-> path, status |-> Ok, id |-> NoId,
                header |-> header, body |-> body, at |-> now,
                invocations |-> Len(r.served), written |-> r.written,
                row |-> IF r.served = <<>> THEN NoRow ELSE r.served[1].row,
                claims |-> IF r.served = <<>> THEN NoClaims
                           ELSE r.served[Len(r.served)].claims,
                token |-> IF r.served = <<>> THEN NoToken ELSE r.served[1].token]
       IN  res' = [res EXCEPT ![p] = Answer(AuthMiddleware(path, header, body, fails))]
    /\ UNCHANGED <<pc, op, users>>
    /\ UserUnchanged

LoginTick ==
    /\ now < MaxLoginTime
    /\ now' = now + 1
    /\ UNCHANGED <<users, documents, permissions, guests, usedIds, calls, trav, Handlers>>

NextLogin ==
    \/ \E p \in Procs, name \in LoginNames, password \in LoginPasswords, salt \in LoginSalts :
           ServiceCreateUser(p, name, password, salt)
    \/ \E p \in Procs, id \in UserIds, old \in LoginPasswords, new \in LoginPasswords :
           ServerChangePassword(p, id, old, new)
    \/ \E p \in Procs : ModifyPasswordGetUserForUpdate(p)
    \/ \E p \in Procs, salt \in LoginSalts : ModifyPasswordChangeUserPassword(p, salt)
    \/ \E p \in Procs : ModifyPasswordCommit(p)
    \/ \E p \in Procs, id \in UserIds : DeactivateUser(p, id)
    \/ \E p \in Procs, header \in Headers :
           \/ \E body \in LoginBodies, fails \in BOOLEAN :
                  /\ fails => body.decodes
                  /\ GatewayServes(p, "/auth/login", header, body, fails)
           \/ GatewayServes(p, "/document", header, NoBody, FALSE)
    \/ LoginTick

SpecLogin == Init /\ [][NextLogin]_vars

\* ------------------------------------------------------------------- claims
InCall(p, name) == op[p].name = name /\ pc[p] \notin {"idle", "returned"}
Steps(p) == pc'[p] # pc[p]
Succeeds(p) == pc'[p] = "returned" /\ res'[p].status = Ok

\* C1: DeleteDocument(D) is atomic. Every step of a DeleteDocument call
\* either leaves the committed tables as they are and does not report
\* success, or it reports success and in that one step removes D, every
\* permission row on D and every guest row on D (and nothing else), so that
\* no permission or guest row on D remains after a successful call.
C1_DeleteDocumentAtomic ==
    [][\A p \in Procs : InCall(p, "DeleteDocument") /\ Steps(p) =>
          LET d == op[p].doc
          IN  \/ ~Succeeds(p) /\ UNCHANGED tables
              \/ /\ Succeeds(p)
                 /\ d \in DocIdsOf(documents)
                 /\ documents' = {x \in documents : x.id # d}
                 /\ permissions' = Without(permissions, {d})
                 /\ guests' = Without(guests, {d})
                 /\ PermsOn(permissions', d) = {} /\ GuestsOn(guests', d) = {}]_vars

C1_Witness ==
    \E p \in Procs :
        /\ pc[p] = "returned" /\ op[p].name = "DeleteDocument"
        /\ res[p].status = Ok
        /\ op[p].doc \notin DocIdsOf(documents)
        /\ GuestIds \cap usedIds # {} /\ guests = {}

\* C2: the step in which CreateDocument(U, ..) returns success with id D
\* leaves a committed permission row (U, D, owner, user), and a listing of
\* U's documents from a beginning cursor returns D with level owner.
C2_OwnerRowAfterCreate ==
    [][\A p \in Procs : InCall(p, "CreateDocument") /\ Steps(p) /\ Succeeds(p) =>
          LET d == res'[p].id
              u == op[p].user
              page == ListDocumentsByPrincipal(documents', permissions', u,
                          AllPermissions, NewBeginningCursor(CreatedAt),
                          DefaultPageSize).rows
          IN  /\ d \in DocIdsOf(documents')
              /\ \E r \in permissions' :
                    /\ r.recipient_id = u /\ r.document_id = d
                    /\ r.permission_level = Owner /\ r.recipient_type = User
              /\ \E i \in 1..Len(page) :
                    page[i].document.id = d /\ page[i].permission_level = Owner]_vars

C2_Witness ==
    \E p \in Procs :
        /\ pc[p] = "returned" /\ op[p].name = "CreateDocument"
        /\ res[p].status = Ok
        /\ \E r \in permissions :
              /\ r.recipient_id = op[p].user /\ r.document_id = res[p].id
              /\ r.permission_level = Owner

\* C3: a CreateDocument call that does not succeed leaves the committed
\* tables unchanged, with neither its document row nor a permission row on
\* it; and whenever a document row becomes visible, an owner permission row
\* on it becomes visible in the same step.
C3_CreateDocumentAllOrNothing ==
    [][/\ \A p \in Procs : InCall(p, "CreateDocument") /\ Steps(p) /\ ~Succeeds(p) =>
              /\ UNCHANGED tables
              /\ op'[p].doc \notin DocIdsOf(documents')
              /\ PermsOn(permissions', op'[p].doc) = {}
       /\ \A d \in DocIdsOf(documents') \ DocIdsOf(documents) :
              \E r \in PermsOn(permissions', d) : r.permission_level = Owner]_vars

C3_Witness ==
    \E p \in Procs :
        /\ pc[p] = "returned" /\ op[p].name = "CreateDocument"
        /\ res[p].status = RepoImpl
        /\ op[p].doc # NoId
        /\ op[p].doc \notin DocIdsOf(documents)
        /\ PermsOn(permissions, op[p].doc) = {}

\* C4: DeleteDocuments(ids, user) is all-or-nothing. Every step of the call
\* either does not report success and leaves the committed tables as they
\* are, or reports success, in which case every listed id named an existing
\* document and that one step removes all listed documents with all their
\* permission rows and guest rows and nothing else.
C4_DeleteDocumentsAllOrNothing ==
    [][\A p \in Procs : InCall(p, "DeleteDocuments") /\ Steps(p) =>
          LET ds == {op[p].ids[k] : k \in 1..Len(op[p].ids)}
          IN  \/ ~Succeeds(p) /\ UNCHANGED tables
              \/ /\ Succeeds(p)
                 /\ ds \subseteq DocIdsOf(documents)
                 /\ documents' = {x \in documents : x.id \notin ds}
                 /\ permissions' = Without(permissions, ds)
                 /\ guests' = Without(guests, ds)]_vars

C4_Witness ==
    \E p \in Procs :
        /\ pc[p] = "returned" /\ op[p].name = "DeleteDocuments"
        /\ res[p].status = NotFound
        /\ op[p].i = 2
        /\ op[p].ids[1] \in DocIdsOf(documents)
        /\ PermsOn(permissions, op[p].ids[1]) # {}

\* C5: once UpsertPermissionUser or CreateGuest has seen its document in the
\* existence check of its repeatable-read unit and a concurrent deletion of
\* that document has committed, no later step of the call reports success
\* and no later step of the call changes the committed tables.
C5_DeletionAfterCheckFailsUnit ==
    [][\A p \in Procs :
          /\ InCall(p, "UpsertPermissionUser") \/ InCall(p, "CreateGuest")
          /\ dirty[p].on
          /\ op[p].doc \notin DocIdsOf(documents)
          /\ Steps(p)
          => /\ ~Succeeds(p)
             /\ UNCHANGED tables]_vars

C5_Witness ==
    \E p \in Procs :
        /\ pc[p] \in {"up_upsert", "cg_guest", "cg_perm"}
        /\ dirty[p].on
        /\ op[p].doc \in dirty[p].docs
        /\ op[p].doc \notin DocIdsOf(documents)

\* C6: in every committed state every permission row and every guest row
\* references a document row that exists.
C6_NoOrphans ==
    /\ \A r \in permissions : r.document_id \in DocIdsOf(documents)
    /\ \A g \in guests : g.document_id \in DocIdsOf(documents)

C6_Witness ==
    \E p \in Procs :
        /\ pc[p] = "returned" /\ op[p].name \in {"DeleteDocument", "DeleteDocuments"}
        /\ res[p].status = Ok
        /\ documents # {} /\ permissions # {}

\* ------------------------------------------------- claims on the listings
RECURSIVE Concat(_)
Concat(pages) ==
    IF pages = <<>> THEN <<>> ELSE Head(pages) \o Concat(Tail(pages))

DocIdsIn(page) == {page[i].document.id : i \in 1..Len(page)}
Walked(kind) == trav.kind = kind /\ trav.done /\ trav.status = Ok

\* C7: with no mutation since the traversal began, a walk of
\* ListDocumentsByPrincipal from a beginning cursor to the first empty page
\* has returned exactly the documents on which the principal holds a level of
\* the filter, each with that level, and the concatenated pages are strictly
\* descending in (sort field, document id), hence without repetition; for
\* both sort fields and every page size.
C7_FullTraversalOfDocuments ==
    Walked("documents") /\ trav.quiet =>
        LET s == Concat(trav.pages)
            sf == trav.cursor.sort_field
        IN  /\ DocIdsIn(s) = Shared(documents, permissions, trav.target, trav.filter)
            /\ \A i \in 1..Len(s) :
                /\ s[i].document \in documents
                /\ \E r \in permissions :
                    /\ PermKey(r) = <<trav.target, s[i].document.id>>
                    /\ r.permission_level = s[i].permission_level
            /\ \A i, j \in 1..Len(s) : i < j =>
                Precedes(SortTime(s[i].document, sf), s[i].document.id,
                         SortTime(s[j].document, sf), s[j].document.id)

C7_Witness ==
    /\ Walked("documents") /\ trav.quiet
    /\ trav.cursor.sort_field = LastModifiedAt
    /\ Len(trav.pages) = 3
    /\ Len(Concat(trav.pages)) = 2
    /\ \E x, y \in documents : x.created_at < y.created_at

\* C9: whatever is inserted between two fetches, page N+1 (fetched with the
\* response cursor of page N) holds none of the documents of page N.
C9_NoReemission ==
    trav.kind = "documents" =>
        \A n \in 1..(Len(trav.pages) - 1) :
            DocIdsIn(trav.pages[n]) \cap DocIdsIn(trav.pages[n + 1]) = {}

C9_Witness ==
    /\ trav.kind = "documents"
    /\ \E n \in 1..(Len(trav.pages) - 1) :
        /\ trav.pages[n] # <<>> /\ trav.pages[n + 1] # <<>>
        /\ trav.marks[n + 1]

\* C10: under concurrent inserts, updates and deletes, a document that
\* matched an earlier fetch of the traversal, was not returned by it and has
\* kept matching the principal and the filter is returned before the
\* traversal ends: when the empty page arrives no such document is left.
C10_NoSkip ==
    trav.kind = "documents" /\ trav.done => trav.pending = {}

C10_Witness ==
    /\ Walked("documents") /\ ~trav.quiet
    /\ trav.cursor.sort_field = LastModifiedAt
    /\ trav.tested # {}
    /\ trav.tested \subseteq DocIdsIn(Concat(trav.pages))
    /\ \E d \in documents : d.id \in trav.tested /\ d.name # Null

\* C8: with no mutation since the traversal began, a walk of
\* ListPermissionsOnDocument from a beginning cursor to the first empty page
\* has returned exactly the permission rows on the document whose level is in
\* the filter, strictly descending in (sort field, recipient id), hence each
\* once; for both sort fields, also when rows were updated after creation.
C8_FullTraversalOfPermissions ==
    Walked("permissions") /\ trav.quiet =>
        LET s == Concat(trav.pages)
            sf == trav.cursor.sort_field
            stored(x) == CHOOSE r \in permissions : PermKey(r) = <<x.recipient_id, x.document_id>>
        IN  /\ {s[i].recipient_id : i \in 1..Len(s)} =
                   {r.recipient_id : r \in {x \in PermsOn(permissions, trav.target) :
                                               x.permission_level \in trav.filter}}
            /\ \A i, j \in 1..Len(s) : i < j =>
                Precedes(SortTime(stored(s[i]), sf), s[i].recipient_id,
                         SortTime(stored(s[j]), sf), s[j].recipient_id)

\* ---------------------------------------------------- claims on one page
\* the page of the last response and the identity of its i-th row
LastPage == trav.pages[Len(trav.pages)]
RowId(kind, row) == IF kind = "documents" THEN row.document.id ELSE row.recipient_id
Answered == trav.pages # <<>> /\ trav.status = Ok

\* C11: a fetch with request cursor (sort field f, time T, id I), filter F and
\* page size n returns exactly the first min(n, |M|) rows, in (f descending,
\* id descending) order, of the set M of stored rows that belong to the
\* target, carry a level in F and have f < T, or f = T and id < I: every
\* returned row is in M, the page is strictly ordered, and no row of M that
\* was left out precedes a returned one. For both listings.
C11_FirstRowsAfterCursor ==
    [][(trav'.pages # trav.pages /\ trav'.status = Ok) =>
        LET page == trav'.pages[Len(trav'.pages)]
            c == trav.cursor
            f == c.sort_field
            All == IF trav.kind = "documents"
                   THEN {[t |-> SortTime(d, f), id |-> d.id] :
                            d \in {x \in documents :
                                      \E r \in permissions :
                                          /\ r.document_id = x.id
                                          /\ r.recipient_id = trav.target
                                          /\ r.permission_level \in trav.filter}}
                   ELSE {[t |-> SortTime(r, f), id |-> r.recipient_id] :
                            r \in {x \in permissions :
                                      /\ x.document_id = trav.target
                                      /\ x.permission_level \in trav.filter}}
            M == {e \in All : \/ e.t < c.last_seen_time
                              \/ e.t = c.last_seen_time /\ e.id < c.last_seen_id}
            ids == [i \in 1..Len(page) |-> RowId(trav.kind, page[i])]
            entry(i) == CHOOSE e \in M : e.id = ids[i]
            before(a, b) == a.t > b.t \/ (a.t = b.t /\ a.id > b.id)
        IN  /\ Len(page) = IF Cardinality(M) < trav.page_size
                           THEN Cardinality(M) ELSE trav.page_size
            /\ \A i \in 1..Len(page) : \E e \in M : e.id = ids[i]
            /\ \A i, j \in 1..Len(page) : i < j => before(entry(i), entry(j))
            /\ \A e \in M : (\A i \in 1..Len(page) : ids[i] # e.id) =>
                   \A i \in 1..Len(page) : before(entry(i), e)
            /\ trav.kind = "documents" =>
                   \A i \in 1..Len(page) : page[i].document \in documents
    ]_vars

\* a page cut off by its limit, followed by the page after its cursor
C11_Witness ==
    /\ trav.kind = "documents" /\ Answered
    /\ Len(trav.pages) >= 2
    /\ trav.page_size = 1
    /\ Len(trav.pages[1]) = 1 /\ Len(trav.pages[2]) = 1
    /\ trav.pages[1][1].document.id # trav.pages[2][1].document.id

\* C12: the response cursor of a non-empty page carries the sort field of the
\* request cursor, the returned last row's value of that field as
\* last_seen_time and the returned last row's id as last_seen_id. For both
\* listings.
C12_CursorFromLastRow ==
    Answered /\ LastPage # <<>> =>
        LET last == LastPage[Len(LastPage)]
            f == trav.sent.sort_field
        IN  /\ trav.cursor.sort_field = f
            /\ trav.cursor.last_seen_time =
                   SortTime(IF trav.kind = "documents" THEN last.document ELSE last, f)
            /\ trav.cursor.last_seen_id = RowId(trav.kind, last)

\* a page of two rows with different times, sorted by last_modified_at
C12_Witness ==
    /\ trav.kind = "documents" /\ Answered
    /\ trav.sent.sort_field = LastModifiedAt
    /\ Len(LastPage) = 2
    /\ LastPage[1].document.created_at # LastPage[2].document.created_at

\* C13: the response cursor of an empty page equals the request cursor in
\* sort field, last_seen_time and last_seen_id. For both listings.
C13_EmptyPageEchoesCursor ==
    Answered /\ LastPage = <<>> => trav.cursor = trav.sent

\* the empty page that ends a walk of the permissions on a document which
\* returned rows before
C13_Witness ==
    /\ Walked("permissions") /\ LastPage = <<>>
    /\ Len(trav.pages) >= 2
    /\ trav.sent # NewBeginningCursor(trav.sent.sort_field)

\* C14: a list request that carries no cursor is answered as the same request
\* with the beginning cursor on created_at is: with the first page of the
\* newest matching rows, and not with an error or a failure of the server.
\* For both listings.
C14_NoCursorMeansBeginning ==
    [][(trav.kind = "none" /\ trav'.kind # "none" /\ trav'.request = NilCursor) =>
        LET beginning == PbCursor(CreatedAt, NoTime, NoId)
            asIf == IF trav'.kind = "documents"
                    THEN ServerListDocumentsByPrincipal(
                             documents, permissions, trav'.target, trav'.filter,
                             beginning, trav'.page_size)
                    ELSE ServerListPermissionsOnDocument(
                             documents, permissions, trav'.target, trav'.filter,
                             beginning, trav'.page_size)
        IN  /\ trav'.status # Panic
            /\ trav'.status = asIf.status
            /\ asIf.status = Ok => trav'.pages = <<asIf.rows>>
    ]_vars

\* ------------------------------------------------ claims on the scenario
\* the documents inserted before the first fetch: the first row of the first
\* page is the newest of them
Originals ==
    {d.id : d \in {x \in documents :
                      x.created_at <= trav.pages[1][1].document.created_at}}
Remaining == Originals \ DocIdsIn(trav.pages[1])

\* C15 as stated: in the scenario (ScenarioDocs documents of the reader, a
\* first page of ScenarioPage from a beginning cursor on created_at, then
\* ScenarioNew newer documents) the second fetch returns the remaining
\* original documents and its response cursor equals the cursor sent with it.
C15_SecondFetchEchoesCursor ==
    trav.kind = "documents" /\ Len(trav.pages) = 2 =>
        /\ DocIdsIn(trav.pages[2]) = Remaining
        /\ Len(trav.pages[2]) = ScenarioDocs - ScenarioPage
        /\ trav.cursor = trav.sent

\* C15 amended: in the same scenario the second fetch returns the remaining
\* original documents and none of the newer ones, and its response cursor is
\* built from the last of them, so it differs from the cursor sent; the
\* fetch after it returns an empty page and echoes its request cursor, which
\* is the end-of-stream signal.
C15_SecondFetchMovesCursor ==
    trav.kind = "documents" /\ Len(trav.pages) >= 2 =>
        LET second == trav.pages[2]
            last == second[Len(second)].document
        IN  /\ DocIdsIn(second) = Remaining
            /\ Len(second) = ScenarioDocs - ScenarioPage
            /\ Len(trav.pages) = 2 =>
                   /\ trav.cursor = Cursor(CreatedAt, last.created_at, last.id)
                   /\ trav.cursor # trav.sent
                   /\ ~trav.done
            /\ Len(trav.pages) >= 3 =>
                   /\ trav.pages[3] = <<>>
                   /\ trav.cursor = trav.sent
                   /\ trav.sent = Cursor(CreatedAt, last.created_at, last.id)
                   /\ trav.done

\* the scenario run to its end, with original documents of different times
C15_Witness ==
    /\ trav.kind = "documents" /\ Len(trav.pages) = 3
    /\ Cardinality(documents) = ScenarioDocs + ScenarioNew
    /\ Cardinality(Remaining) = ScenarioDocs - ScenarioPage
    /\ \E d, e \in documents :
           /\ {d.id, e.id} \subseteq Originals
           /\ d.created_at # e.created_at

\* ------------------------------------------------ claims on the user service
Returned(p, call) == "call" \in DOMAIN res[p] /\ res[p].call = call

\* two calls of ChangePassword on one user that were under way at the same
\* time, each given the password that was correct when it arrived, with new
\* passwords that differ from each other
Rivals(p, q) ==
    /\ p # q
    /\ Returned(p, "ChangePassword") /\ Returned(q, "ChangePassword")
    /\ res[p].id = res[q].id
    /\ res[q].n \in res[p].overlaps
    /\ res[p].correct /\ res[q].correct
    /\ res[p].new # res[q].new

OneWins(p, q) ==
    /\ ~(res[p].status = Ok /\ res[q].status = Ok)
    /\ res[p].status = Ok => res[q].status = PasswordMismatch
    /\ res[q].status = Ok => res[p].status = PasswordMismatch

\* C16 as stated: of two concurrent ChangePassword requests on the same user
\* that both supply the currently correct old password and different new
\* passwords, at most one returns success and the other returns
\* PasswordMismatch.
C16_AtMostOneChangeSucceeds ==
    \A p, q \in Procs : Rivals(p, q) => OneWins(p, q)

\* C16 amended: the same, for new passwords that differ from each other and
\* from the old password.
C16_AtMostOneRealChangeSucceeds ==
    \A p, q \in Procs :
        Rivals(p, q) /\ res[p].new # res[p].old /\ res[q].new # res[q].old =>
            OneWins(p, q)

\* two concurrent changes from the same old password to two other passwords
\* have both returned, one of them with success
C16_Witness ==
    \E p, q \in Procs :
        /\ Rivals(p, q)
        /\ res[p].new # res[p].old /\ res[q].new # res[q].old
        /\ res[p].status = Ok /\ res[q].status = PasswordMismatch

\* C17: ValidatePassword(u, p) returns valid when the stored hash was written
\* by CreateUser(u, _, p) or by a successful ChangePassword to p; after a
\* successful ChangePassword(u, p, p') with p' # p it returns not-valid
\* for p.
C17_PasswordRoundTrip ==
    [][\A p \in Procs :
        (/\ calls' # calls
         /\ "call" \in DOMAIN res'[p]
         /\ res'[p].call = "ValidatePassword"
         /\ res'[p].n = calls'
         /\ UserByName(res'[p].name) # {}) =>
            LET row == CHOOSE u \in UserByName(res'[p].name) : TRUE
                c == row.credential
                given == res'[p].password
            IN  /\ c.new = given => res'[p].valid /\ res'[p].id = row.id
                /\ (c.call = "ChangePassword" /\ c.old = given /\ c.new # given) =>
                       ~res'[p].valid
    ]_vars

\* the old password was validated after a successful change, and refused
C17_Witness ==
    \E p \in Procs :
        /\ Returned(p, "ValidatePassword")
        /\ \E u \in UserByName(res[p].name) :
               /\ u.credential.call = "ChangePassword"
               /\ u.credential.old = res[p].password
               /\ u.credential.new # res[p].password
        /\ ~res[p].valid

\* -------------------------------------------------- claims on the owner level
OwnerRows(rows, d) == {r \in rows : r.document_id = d /\ r.permission_level = Owner}
Refused(p, name) ==
    /\ pc[p] = "returned" /\ op[p].name = name /\ op[p].level = Owner
    /\ res[p].status = InvalidInput

\* C18: in every state reachable through the service-layer operations every
\* permission row with level owner has recipient type user: no guest holds
\* owner.
C18_NoGuestOwner ==
    \A r \in permissions : r.permission_level = Owner => r.recipient_type = User

\* a guest holds a permission and a request for a guest with level owner was
\* turned down
C18_Witness ==
    /\ \E r \in permissions : r.recipient_type = Guest
    /\ \E p \in Procs : Refused(p, "CreateGuest") \/ Refused(p, "UpdatePermissionGuest")

\* C19: UpsertPermissionUser(U, D, owner), CreateGuest(creator, D, owner) and
\* UpdatePermissionGuest(G, owner) each return InvalidInput at once and leave
\* the permissions and guests tables unchanged.
C19_OwnerLevelRefused ==
    [][\A p \in Procs :
        (/\ pc[p] = "idle" /\ pc'[p] # "idle"
         /\ op'[p].name \in {"UpsertPermissionUser", "CreateGuest", "UpdatePermissionGuest"}
         /\ op'[p].level = Owner) =>
            /\ pc'[p] = "returned"
            /\ res'[p].status = InvalidInput
            /\ permissions' = permissions
            /\ guests' = guests
    ]_vars

\* an owner upsert on an existing document and an owner request for a guest
\* were both turned down
C19_Witness ==
    \E p, q \in Procs :
        /\ Refused(p, "UpsertPermissionUser")
        /\ op[p].doc \in DocIdsOf(documents)
        /\ Refused(q, "CreateGuest") \/ Refused(q, "UpdatePermissionGuest")

\* C20: each document has at most one permission row with level owner, and an
\* owner row comes into being only when CreateDocument commits, for the user
\* passed to that call and for the document it created; no owner row is
\* written afterwards.
C20_OwnerOnlyByCreateDocument ==
    [][/\ \A r \in permissions' \ permissions :
            r.permission_level = Owner =>
                \E p \in Procs :
                    /\ op[p].name = "CreateDocument"
                    /\ pc[p] = "cd_commit" /\ pc'[p] = "returned"
                    /\ res'[p].status = Ok
                    /\ r.recipient_id = op[p].user
                    /\ r.recipient_type = User
                    /\ r.document_id = op[p].doc
                    /\ PermsOn(permissions, r.document_id) = {}
       /\ \A r \in permissions' : Cardinality(OwnerRows(permissions', r.document_id)) <= 1
    ]_vars

\* a document with its owner and a second user holding another level, after
\* an owner upsert on it was turned down
C20_Witness ==
    \E d \in DocIdsOf(documents) :
        /\ Cardinality(OwnerRows(permissions, d)) = 1
        /\ \E r \in PermsOn(permissions, d) :
               r.permission_level # Owner /\ r.recipient_type = User
        /\ \E p \in Procs : Refused(p, "UpsertPermissionUser") /\ op[p].doc = d

\* ------------------------------------------- claims on permission writes
RowsOf(rows, k) == {r \in rows : PermKey(r) = k}
UpsertCommits(p) ==
    /\ op[p].name = "UpsertPermissionUser"
    /\ pc[p] = "up_commit" /\ pc'[p] = "returned" /\ res'[p].status = Ok

\* C21: at most one permission row exists per (recipient_id, document_id);
\* an UpsertPermissionUser that succeeds for a pair that has a row, also
\* beside a concurrent upsert for the same pair, leaves one row for the pair
\* with the level it was given, and changes no other row.
C21_OneRowPerPair ==
    [][/\ \A r1, r2 \in permissions' : PermKey(r1) = PermKey(r2) => r1 = r2
       /\ \A p \in Procs : UpsertCommits(p) =>
            LET k == <<op[p].user, op[p].doc>>
            IN  /\ Cardinality(RowsOf(permissions', k)) = 1
                /\ \A r \in RowsOf(permissions', k) :
                       /\ r.permission_level = op[p].level
                       /\ \A b \in RowsOf(permissions, k) :
                              /\ r.created_at = b.created_at
                              /\ r.created_by = b.created_by
                /\ permissions' \ RowsOf(permissions', k) =
                       permissions \ RowsOf(permissions, k)
    ]_vars

\* two upserts for one pair with different levels have both succeeded
C21_Witness ==
    \E p, q \in Procs :
        /\ p # q
        /\ pc[p] = "returned" /\ pc[q] = "returned"
        /\ op[p].name = "UpsertPermissionUser" /\ op[q].name = "UpsertPermissionUser"
        /\ res[p].status = Ok /\ res[q].status = Ok
        /\ op[p].user = op[q].user /\ op[p].doc = op[q].doc
        /\ op[p].level # op[q].level
        /\ Cardinality(RowsOf(permissions, <<op[p].user, op[p].doc>>)) = 1

\* C22: UpsertPermissionUser never modifies a permission row whose
\* recipient_type is guest: a guest's row that stays in the table changes
\* only in the UPDATE statement of an UpdatePermissionGuest for that guest.
C22_GuestRowsChangeOnlyByUpdatePermissionGuest ==
    [][\A r \in permissions : \A r2 \in permissions' :
          (r.recipient_type = Guest /\ PermKey(r2) = PermKey(r) /\ r2 # r) =>
              \E p \in Procs : /\ op[p].name = "UpdatePermissionGuest"
                               /\ op[p].guest = r.recipient_id
                               /\ pc[p] = "ug_update" /\ pc'[p] = "returned"
    ]_vars

\* C23: the repository's UpsertPermissionUser itself rejects level owner:
\* called directly with owner it never returns success (and so commits no row).
C23_RepositoryRejectsOwner ==
    \A p \in Procs :
        (/\ op[p].name = "repository.UpsertPermissionUser"
         /\ op[p].level = Owner
         /\ pc[p] = "returned") => res[p].status # Ok

\* C24: after a successful UpdateDocument that supplies a name, the
\* document's last_modified_at is strictly later than its value before the
\* update and later than created_at.
C24_UpdateDocumentAdvancesLastModified ==
    [][\A x \in documents : \A y \in documents' :
          (x.id = y.id /\ x.name # y.name) =>
              /\ y.last_modified_at > x.last_modified_at
              /\ y.last_modified_at > y.created_at
    ]_vars

FetchesPermissions ==
    /\ trav.kind = "permissions" /\ trav'.kind = "permissions"
    /\ Len(trav'.pages) = Len(trav.pages) + 1

\* C26: ListPermissionsOnDocument on a document id that does not exist (never
\* created, or deleted between two pages) answers NotFound, never a page;
\* on a document that exists it answers Ok, also when the page is empty.
C26_MissingDocumentIsNotFound ==
    [][FetchesPermissions =>
          IF trav.target \in DocIdsOf(documents)
          THEN trav'.status = Ok
          ELSE trav'.status = NotFound /\ trav'.pages[Len(trav'.pages)] = <<>>
    ]_vars

\* the first page held rows, then the document was deleted and the next
\* fetch was answered NotFound
C26_Witness ==
    /\ trav.kind = "permissions"
    /\ Len(trav.pages) >= 2
    /\ Len(trav.pages[1]) > 0
    /\ trav.status = NotFound
    /\ trav.target \notin DocIdsOf(documents)

\* ------------------------------------------------------ claims on errors
\* the mapping table: the gRPC code and the HTTP status of an error kind
TableCode(kind) ==
    CASE kind = NotFound -> "NOT_FOUND"
      [] kind = InvalidInput -> "INVALID_ARGUMENT"
      [] kind = UniqueConflict -> "ALREADY_EXISTS"
      [] kind = PasswordMismatch -> "PERMISSION_DENIED"
      [] OTHER -> "INTERNAL"
TableStatus(kind) ==
    CASE kind = NotFound -> 404
      [] kind = InvalidInput -> 400
      [] kind = UniqueConflict -> 409
      [] kind = PasswordMismatch -> 403
      [] OTHER -> 500

Handled(p) == "request" \in DOMAIN res[p]
\* the request carries a valid guest token: claims without a user name whose
\* subject is an id
GuestRequest(req) ==
    /\ ~req.claims.nil
    /\ GetTokenType(req.claims) = Guest
    /\ ParsePrincipalId(req.claims).ok
WriteEndpoints ==
    {"POST /document", "DELETE /document", "DELETE /document/{id}",
     "POST /document/{id}/permission",
     "PUT /document/{id}/permission/principal/{principal_id}",
     "DELETE /document/{id}/permission/principal/{principal_id}"}
ReadEndpoints ==
    {"GET /document", "GET /document/{id}", "GET /document/{id}/permission",
     "GET /document/{id}/permission/principal/{principal_id}"}

\* C28: a request with a valid guest token to POST /document, DELETE
\* /document, DELETE /document/{id} or a permission-mutation endpoint is
\* answered 403 by the gateway and no document-service RPC is issued.
C28_GuestWritesAreForbidden ==
    \A p \in Procs :
        (/\ Handled(p)
         /\ res[p].request.endpoint \in WriteEndpoints
         /\ GuestRequest(res[p].request)) =>
            res[p].rpc = "none" /\ res[p].sent = 403

\* the same request carrying a user token
WithUserToken(req) == [req EXCEPT !.claims.user_name = "ada"]
\* the gate turned the request down although it lets the same request with a
\* user token through to the document service
RejectedAsGuest(req) ==
    /\ Handle(req).rpc = "none"
    /\ Handle(WithUserToken(req)).rpc # "none"

\* C29 as stated: on every read endpoint a request is never rejected only
\* because its token is a guest token.
C29_ReadsPassEitherKind ==
    \A p \in Procs :
        (/\ Handled(p)
         /\ res[p].request.endpoint \in ReadEndpoints
         /\ GuestRequest(res[p].request)) => ~RejectedAsGuest(res[p].request)

\* C29, amended: GET /document and GET /document/{id} never reject a request
\* only because its token is a guest token; GET /document/{id}/permission
\* answers every guest token 403; GET
\* /document/{id}/permission/principal/{principal_id} answers a guest token
\* 403 exactly when the principal asked about is not the caller.
C29_ReadsPassGuestsExceptPermissions ==
    \A p \in Procs :
        (/\ Handled(p)
         /\ res[p].request.endpoint \in ReadEndpoints
         /\ GuestRequest(res[p].request)) =>
            LET req == res[p].request
                barred ==
                    \/ req.endpoint = "GET /document/{id}/permission"
                    \/ /\ req.endpoint =
                              "GET /document/{id}/permission/principal/{principal_id}"
                       /\ req.principal # ParsePrincipalId(req.claims).id
            IN  IF barred
                THEN res[p].rpc = "none" /\ res[p].sent = 403
                ELSE ~RejectedAsGuest(req)

\* a guest's GET /document was served, and a guest's GET
\* /document/{id}/permission was answered 403
C29_Witness ==
    \E p \in Procs :
        /\ Handled(p) /\ GuestRequest(res[p].request)
        /\ pc[p] = "returned"
        /\ \/ /\ res[p].request.endpoint = "GET /document"
              /\ res[p].rpc = "ListDocumentsByPrincipal" /\ res[p].sent = 200
           \/ /\ res[p].request.endpoint =
                     "GET /document/{id}/permission/principal/{principal_id}"
              /\ res[p].rpc = "GetPermissionsOfPrincipalOnDocument"
              /\ res[p].sent = 200

\* ---------------------------------------------------- claims on the cursor
\* the client sent back the blob of the page it received
SentBack(p) == "param" \in DOMAIN res[p] /\ res[p].param = res[p].blob

\* C30: when a client sends back the blob it received, the gateway decodes it
\* and the document service parses from it the cursor it had answered with:
\* the same sort field, the same last_seen_time, the same last_seen_id.
C30_CursorRoundTrip ==
    \A p \in Procs :
        pc[p] = "returned" /\ SentBack(p)
        => /\ "parsed" \in DOMAIN res[p]
           /\ res[p].parsed.status = Ok
           /\ res[p].parsed.cursor = res[p].cursor

\* a cursor on last_modified_at with a time between two seconds and the
\* greatest identifier has made the round trip
C30_Witness ==
    \E p \in Procs :
        /\ pc[p] = "returned" /\ SentBack(p)
        /\ res[p].cursor = Cursor(LastModifiedAt, 1500000, MaxDocumentID)
        /\ "parsed" \in DOMAIN res[p]
        /\ res[p].parsed.status = Ok
        /\ res[p].parsed.cursor = res[p].cursor

\* ------------------------------------------------------ claims on the login
\* a request to POST /auth/login whose body decoded and whose call of the
\* user service did not fail
AtGateway(p, path) == "written" \in DOMAIN res[p] /\ res[p].call = path
LoginAnswered(p) ==
    /\ AtGateway(p, "/auth/login")
    /\ res[p].body.decodes
    /\ res[p].written[1] \in {200, 401, 404}

GrantCommits(p) ==
    /\ pc[p] = "up_commit"
    /\ pc'[p] = "returned"
    /\ res'[p].status = Ok
    /\ op[p].caller \notin {NoId, op[p].user}
    /\ RowsOf(permissions, <<op[p].user, op[p].doc>>) = {}

\* C32: when a calling user C grants another user U a permission on document
\* D, the row stored for (U, D) has created_by = C.
C32_CreatedByIsTheGrantingUser ==
    [][\A p \in Procs :
           GrantCommits(p)
           => \A row \in RowsOf(permissions', <<op[p].user, op[p].doc>>) :
                  row.created_by = op[p].caller]_vars

\* ------------------------------------------- claims on the guest's update
\* a statement of UpdatePermissionGuest ends the call of p
GuestUpdateReturns(p) ==
    /\ op[p].name = "UpdatePermissionGuest"
    /\ pc[p] \in {"ug_select", "ug_update"}
    /\ pc'[p] = "returned"
    /\ ~Fail(p)

\* C33: UpdatePermissionGuest beside the deletion of the guest's document
\* returns success, and then the document is still there, or NotFound; it
\* returns no other error kind, and it leaves no permission row of the guest
\* on a document that is gone.
C33_GuestUpdateBesideDeletion ==
    [][\A p \in Procs :
           GuestUpdateReturns(p)
           => /\ res'[p].status \in {Ok, NotFound}
              /\ res'[p].status = Ok => op[p].doc \in DocIdsOf(documents')
              /\ \A row \in permissions' :
                     row.recipient_id = op[p].guest => row.document_id \in DocIdsOf(documents')]_vars

\* the guest was read, its document was deleted with the guest and the row,
\* and the update found no row
C33_Witness ==
    \E p \in Procs :
        /\ pc[p] = "returned"
        /\ op[p].name = "UpdatePermissionGuest"
        /\ op[p].doc # NoId
        /\ res[p].status = NotFound
        /\ op[p].doc \notin DocIdsOf(documents)
        /\ \A g \in guests : g.id # op[p].guest
        /\ \A row \in permissions : row.recipient_id # op[p].guest

\* --------------------------------------------- claims on the owner's own row
\* C34: a service-layer UpsertPermissionUser that targets the owner of a
\* document on that document does not change the level of the owner's row,
\* which stays owner.
C34_OwnerKeepsOwnLevel ==
    [][\A p \in Procs :
           UpsertCommits(p)
           => \A row \in RowsOf(permissions, <<op[p].user, op[p].doc>>) :
                  row.permission_level = Owner
                  => \E kept \in RowsOf(permissions', <<op[p].user, op[p].doc>>) :
                         kept.permission_level = Owner]_vars


\* ------------------------------------------------ claims on the batch delete
DeleteDocumentsReturns(p) ==
    /\ op[p].name = "DeleteDocuments"
    /\ pc[p] \notin {"idle", "returned"}
    /\ pc'[p] = "returned"
    /\ ~Fail(p)

ListedDocs(p) == {op[p].ids[i] : i \in 1..Len(op[p].ids)}

\* C35: DeleteDocuments on a non-empty list of ids of stored documents, with
\* no other call at work, returns no error, and afterwards none of the
\* listed documents is stored, so that GetDocument fails for each of them.
C35_DeleteDocumentsDeletesListed ==
    [][\A p \in Procs :
           (/\ DeleteDocumentsReturns(p)
            /\ ListedDocs(p) \subseteq DocIdsOf(documents)
            /\ \A q \in Procs \ {p} : pc[q] = "idle")
           => /\ res'[p].status = Ok
              /\ ListedDocs(p) \cap DocIdsOf(documents') = {}]_vars


\* both calls are DeleteDocuments at work on the same documents, listed in
\* different orders
OppositeOrders(p, q) ==
    /\ op[p].name = "DeleteDocuments" /\ op[q].name = "DeleteDocuments"
    /\ pc[p] \notin {"idle", "returned"} /\ pc[q] \notin {"idle", "returned"}
    /\ ListedDocs(p) = ListedDocs(q)
    /\ op[p].ids # op[q].ids

\* document d is stored with its owner's row and, for document 1, its guest
\* and the guest's row, or nothing of it is stored
StoredPermKeys(d) == {<<d, d>>} \cup (IF d = 1 THEN {<<FirstGuest, 1>>} ELSE {})
StoredGuestIds(d) == IF d = 1 THEN {FirstGuest} ELSE {}

WholeOrGone(d) ==
    \/ /\ d \in DocIdsOf(documents)
       /\ {PermKey(r) : r \in PermsOn(permissions, d)} = StoredPermKeys(d)
       /\ {g.id : g \in GuestsOn(guests, d)} = StoredGuestIds(d)
    \/ /\ d \notin DocIdsOf(documents)
       /\ PermsOn(permissions, d) = {}
       /\ GuestsOn(guests, d) = {}

\* C36: two concurrent DeleteDocuments calls that list the same documents in
\* different orders both return, and every document is at all times either
\* stored with its permissions and guests or gone with all of them.
C36_OppositeOrdersTerminate ==
    /\ \A p \in Procs :
           (\E q \in Procs \ {p} : OppositeOrders(p, q)) ~> (pc[p] = "returned")
    /\ [](\A d \in 1..2 : WholeOrGone(d))

\* one of the two calls in opposite orders was the victim, the other one
\* deleted both documents
C36_Witness ==
    \E p \in Procs : \E q \in Procs \ {p} :
        /\ op[p].name = "DeleteDocuments" /\ op[q].name = "DeleteDocuments"
        /\ op[p].ids = <<1, 2>> /\ op[q].ids = <<2, 1>>
        /\ pc[p] = "returned" /\ pc[q] = "returned"
        /\ res[p].status = RepoImpl /\ res[q].status = Ok
        /\ documents = {} /\ permissions = {} /\ guests = {}


\* --------------------------------------------- claims on the token of a login
\* the request that p answered carried, as a bearer token, a token that a
\* login has issued, before the token's expiry
PresentsLoginToken(p) ==
    /\ AtGateway(p, "/document")
    /\ res[p].header.kind = "bearer"
    /\ res[p].header.token.alg = HS256
    /\ res[p].header.token.key = JWTSecretKey
    /\ res[p].at <= res[p].header.token.exp

\* C37: a token that a successful POST /auth/login returned, presented
\* unexpired as a bearer token on a later request, is accepted by
\* AuthMiddleware: the handler is invoked once, with claims whose subject is
\* the id of the user who logged in and whose kind is user (a user name).
C37_LoginTokenAccepted ==
    \A p \in Procs :
        PresentsLoginToken(p)
        => /\ res[p].invocations = 1
           /\ res[p].written = <<200>>
           /\ res[p].claims = [nil |-> FALSE,
                               userName |-> res[p].header.token.userName,
                               subject |-> res[p].header.token.subject]
           /\ res[p].claims.userName # ""


\* ------------------------------------------ claims on a deactivated user
\* C38: a login that issues a token has read the row of a user who is
\* active: after DeactivateUser has succeeded for a user, the user's name and
\* password are not reported as valid.
C38_NoTokenForDeactivatedUser ==
    \A p \in Procs :
        (AtGateway(p, "/auth/login") /\ res[p].token # NoToken)
        => res[p].row.is_active

\* --------------------------------- claims on the middleware before a login
\* C39: for a request to /auth/login AuthMiddleware invokes the login
\* handler exactly once and writes no response of its own: one status is
\* written in all.
C39_LoginServedOnce ==
    \A p \in Procs :
        AtGateway(p, "/auth/login")
        => /\ res[p].invocations = 1
           /\ Len(res[p].written) = 1

\* ------------------------------------------ claims on stored credentials
\* C40: after any sequence of CreateUser and ChangePassword calls, every
\* password that ValidatePassword accepts for a stored user has at least
\* MinPasswordLength characters.
C40_AcceptedPasswordsAreLong ==
    \A u \in users : \A password \in LoginPasswords :
        ValidatePassword(u.user_name, password, FALSE).valid
        => Len(password) >= MinPasswordLength

====
